---- MODULE Spec2Model ----
(***************************************************************************)
(* Model of ctapipe_io_zfits: the MultiFiles k-way merge over parallel,    *)
(* chunked data sources (multifile.py) and the subarray-trigger /          *)
(* telescope-event correlation of ProtozfitsDL0EventSource (dl0.py).       *)
(***************************************************************************)
EXTENDS Integers, Sequences, FiniteSets, TLC

\* ------------------------------------------------------------------ bounds
MaxChunk == 1       \* chunk indices of the files of a data source: 0..MaxChunk
MaxEventId == 2     \* event ids written to files: 1..MaxEventId
MaxRecords == 3     \* total number of records in all files of a directory
MaxTelRecords == 2  \* total number of records in the files of all telescopes
MaxTriggerId == 3   \* event ids of the subarray trigger records: 1..MaxTriggerId
MaxClose == 2       \* calls of MultiFiles.close()
MaxTimestamp == 2   \* timestamps in file names: 1..MaxTimestamp
MaxFiles == 2       \* number of named files in a directory
MaxTelDigits == 4   \* digits of the telescope id in a file name: 1..MaxTelDigits
MaxDigits == 2      \* digits of sb_id, obs_id and chunk in a file name: 1..MaxDigits
MaxTriggerChunk == 1 \* chunk indices of the subarray trigger files: 0..MaxTriggerChunk

DataSources == {"SDH001", "SDH002"}
Chunks == 0..MaxChunk
EventIds == 1..MaxEventId
TelIds == {1, 2}
TriggerIds == 1..MaxTriggerId
Timestamps == 1..MaxTimestamp
ObsIds == {1, 2}

\* ------------------------------------------------- state of the MultiFiles
VARIABLES
    directory,      \* the files on disk: [data_source -> sequence of chunk files],
                    \* the file of chunk index c at position c + 1, a file being
                    \* the sequence of the event ids of its records
    late_at,        \* Len(yielded) when a file appeared after the open, -1 before
    status,         \* "unopened", "open", "init_failed"
    mf,             \* the fields of the MultiFiles object, and as handles the
                    \* File objects _load_next_chunk created and did not close
    last,           \* outcome of the last call: [kind, event]
    yielded,        \* events returned by __next__, in order
    n_stop,         \* Len(yielded) at the first StopIteration of __next__, -1 before
    recorded_inputs, \* the files opened, in order: [data_source, chunk]
    closes,         \* number of calls of MultiFiles.close()
    released        \* [data_source -> number of close() calls made on the file
                    \* that _open_files holds for it]

mfvars == <<directory, late_at, status, mf, last, yielded, n_stop, recorded_inputs,
            closes, released>>

\* ------------------------------------- state of the ProtozfitsDL0EventSource
VARIABLES
    tel_dirs,          \* the events directory of each telescope, as directory above
    source,            \* "unopened", "open", "init_failed", "finished"
    telescope_files,   \* _telescope_files: tel_id -> MultiFiles, where files were found
    tel_event_buffer,  \* _tel_event_buffer: <<tel_id, event_id>> -> telescope event
    count,             \* number of subarray trigger records read by _generator
    array_event,       \* outcome of the last step of _generator
    log_missing,       \* per telescope, the log_missing calls of the last step
    n_read,            \* per telescope, the records next(tel_file) returned in the last step
    warn_missing,      \* the configuration flag warn_missing
    log_level,         \* the level of the log_missing calls of the last step, "none"
                       \* if there was no call
    n_trigger_chunks,  \* the number of chunk files of the subarray trigger stream,
                       \* input_url being the one of chunk index 0
    trigger_chunk      \* the chunk index of the trigger file _generator reads

dl0vars == <<tel_dirs, source, telescope_files, tel_event_buffer, count, array_event,
             log_missing, n_read, warn_missing, log_level, n_trigger_chunks,
             trigger_chunk>>

\* ------------------------------- file names seen by a MultiFiles
VARIABLES
    file_names,     \* the names of the files in the directory:
                    \* [data_source, timestamp, obs_id, chunk]
    named,          \* a MultiFiles as far as file names go: [status, path,
                    \* ignore_timestamp, all_source_ids, data_sources,
                    \* current_chunk, open_files (data_source -> name), candidates]
    codec           \* a file name taken through get_file_info and the template
                    \* of its convention: [stage, convention, name, info, rendered]

namevars == <<file_names, named, codec>>

vars == <<mfvars, dl0vars, namevars>>

NoName == [data_source |-> "", timestamp |-> 0, obs_id |-> 0, chunk |-> 0]

\* the text of a file name, cut where the regex of its convention cuts it:
\* numbers are the sequences of their digits, <<>> and "" are groups that did
\* not take part in the match; colon is the ":" the group around data_type allows
NoText ==
    [tel_id |-> <<>>, data_source |-> "", timestamp |-> "", sb_id |-> <<>>,
     obs_id |-> <<>>, colon |-> FALSE, data_type |-> "", chunk |-> <<>>,
     extra_suffix |-> ""]

\* None, where an integer can stand
None == -1

NoInfo ==
    [tel_id |-> None, data_source |-> "", timestamp |-> "", sb_id |-> None,
     obs_id |-> None, chunk |-> None, data_type |-> "", sb_id_padding |-> 0,
     obs_id_padding |-> 0, chunk_padding |-> 0, extra_suffix |-> ""]

\* no file name is being converted
CodecIdle ==
    codec = [stage |-> "none", convention |-> "", name |-> NoText, info |-> NoInfo,
             rendered |-> NoText]

\* no MultiFiles on named files
NamesIdle ==
    /\ CodecIdle
    /\ file_names = {}
    /\ named = [status |-> "unopened", path |-> NoName, ignore_timestamp |-> TRUE,
                all_source_ids |-> TRUE, data_sources |-> {}, current_chunk |-> <<>>,
                open_files |-> <<>>, candidates |-> <<>>]

NoEvent == [event_id |-> 0, data_source |-> "", chunk |-> 0, idx |-> 0]

\* a function restricted to / extended over a domain
Without(f, x) == [y \in (DOMAIN f) \ {x} |-> f[y]]
With(f, x, v) == [y \in (DOMAIN f) \cup {x} |-> IF y = x THEN v ELSE f[y]]

\* -------------------------------------------------- the priority queue
\* NextEvent is ordered by priority alone (event and data_source: compare=False)
NextEvent(priority, event, data_source) ==
    [priority |-> priority, event |-> event, data_source |-> data_source]

NextEventLt_reversed(a, b) == a.priority > b.priority

NextEventLt(a, b) == a.priority < b.priority

\* heapq._siftdown, positions counted from 0 as in the library
RECURSIVE SiftDown(_, _, _, _)
SiftDown(heap, startpos, pos, newitem) ==
    IF pos > startpos
    THEN LET parentpos == (pos - 1) \div 2
             parent == heap[parentpos + 1]
         IN IF NextEventLt(newitem, parent)
            THEN SiftDown([heap EXCEPT ![pos + 1] = parent], startpos, parentpos, newitem)
            ELSE [heap EXCEPT ![pos + 1] = newitem]
    ELSE [heap EXCEPT ![pos + 1] = newitem]

\* the loop of heapq._siftup: bubble the smaller child up until a leaf is hit
RECURSIVE SiftUpLoop(_, _)
SiftUpLoop(heap, pos) ==
    LET endpos == Len(heap)
        childpos == 2 * pos + 1
        rightpos == childpos + 1
    IN IF childpos < endpos
       THEN LET c == IF rightpos < endpos
                        /\ ~NextEventLt(heap[childpos + 1], heap[rightpos + 1])
                     THEN rightpos ELSE childpos
            IN SiftUpLoop([heap EXCEPT ![pos + 1] = heap[c + 1]], c)
       ELSE [heap |-> heap, pos |-> pos]

SiftUp(heap, pos) ==
    LET newitem == heap[pos + 1]
        r == SiftUpLoop(heap, pos)
    IN SiftDown(r.heap, pos, r.pos, newitem)

\* PriorityQueue.put_nowait: heapq.heappush
put_nowait(heap, item) == SiftDown(Append(heap, item), 0, Len(heap), item)

\* the smallest item is read and the queue emptied
get_nowait_clearing(heap) == [item |-> heap[1], heap |-> <<>>]

\* the smallest item is read and left in the queue
get_nowait_keeping(heap) == [item |-> heap[1], heap |-> heap]

\* PriorityQueue.get_nowait on a non-empty queue: heapq.heappop
get_nowait(heap) ==
    LET lastelt == heap[Len(heap)]
        rest == SubSeq(heap, 1, Len(heap) - 1)
    IN IF rest # <<>>
       THEN [item |-> rest[1], heap |-> SiftUp([rest EXCEPT ![1] = lastelt], 0)]
       ELSE [item |-> lastelt, heap |-> <<>>]

\* ------------------------------------------------------------ MultiFiles
\* directory.glob(pattern) for one data source and chunk index: is there a file
FileExists(dir, data_source, chunk) ==
    data_source \in DataSources /\ chunk >= 0 /\ chunk < Len(dir[data_source])

\* the records of the file found
FileEvents(dir, data_source, chunk) == dir[data_source][chunk + 1]

\* next(events_table): the record after position table.pos of the open file
TableNext(dir, data_source, table) ==
    LET events == FileEvents(dir, data_source, table.chunk)
    IN IF table.pos < Len(events)
       THEN [ok |-> TRUE,
             table |-> [table EXCEPT !.pos = table.pos + 1],
             event |-> [event_id |-> events[table.pos + 1], data_source |-> data_source,
                        chunk |-> table.chunk, idx |-> table.pos + 1]]
       ELSE [ok |-> FALSE, table |-> table, event |-> NoEvent]

\* the chunk index _load_next_chunk moves a data source to
next_chunk_skipping(m, data_source) == m.current_chunk[data_source] + 2

next_chunk(m, data_source) == m.current_chunk[data_source] + 1

\* data_stream and camera_config before a file was read (None)
NoFile == [data_source |-> "", chunk |-> -1]

\* the metadata is taken from every file opened
read_always(current, file_) == file_

\* `if self.data_stream is None: self.data_stream = file_.DataStream[0]`, the
\* metadata of a file standing for the file it is read from
read_if_none(current, file_) == IF current = NoFile THEN file_ ELSE current

\* MultiFiles._load_next_chunk: [mf, exc, opened]; exc is the exception that
\* leaves the method ("none" when it returns), opened the files it opened
\* no file is closed
closed_none(m, data_source) == {}

\* the File that _load_next_chunk pops from _open_files and closes
closed_file(m, data_source) ==
    IF data_source \in DOMAIN m.open_files
    THEN {[data_source |-> data_source, chunk |-> m.open_files[data_source]]}
    ELSE {}

\* _load_next_chunk without the pop and close of the file that is open
load_next_chunk_keeping(m, dir, data_source) ==
    LET chunk == next_chunk(m, data_source)
        m1 == [m EXCEPT !.current_chunk[data_source] = chunk]
        table0 == [chunk |-> chunk, pos |-> 0]
        here == <<[data_source |-> data_source, chunk |-> chunk]>>
        m2 == [m1 EXCEPT !.open_files = With(m.open_files, data_source, chunk),
                         !.events_tables = With(m1.events_tables, data_source, table0),
                         !.handles = @ \cup {here[1]}]
        n == TableNext(dir, data_source, table0)
    IN IF ~FileExists(dir, data_source, chunk)
       THEN [mf |-> m1, exc |-> "FileNotFoundError", opened |-> <<>>]
       ELSE IF ~n.ok
       THEN [mf |-> m2, exc |-> "StopIteration", opened |-> here]
       ELSE [mf |-> [m2 EXCEPT !.events_tables[data_source] = n.table,
                               !.events = put_nowait(m2.events,
                                   NextEvent(n.event.event_id, n.event, data_source)),
                               !.data_stream = read_if_none(@, here[1]),
                               !.camera_config = read_if_none(@, here[1])],
             exc |-> "none", opened |-> here]

load_next_chunk(m, dir, data_source) ==
    LET open1 == IF data_source \in DOMAIN m.open_files
                 THEN Without(m.open_files, data_source) ELSE m.open_files
        chunk == next_chunk(m, data_source)
        popped == closed_file(m, data_source)
        m1 == [m EXCEPT !.open_files = open1, !.current_chunk[data_source] = chunk,
                        !.handles = @ \ popped]
        table0 == [chunk |-> chunk, pos |-> 0]
        here == <<[data_source |-> data_source, chunk |-> chunk]>>
        m2 == [m1 EXCEPT !.open_files = With(open1, data_source, chunk),
                         !.events_tables = With(m1.events_tables, data_source, table0),
                         !.handles = @ \cup {here[1]}]
        n == TableNext(dir, data_source, table0)
    IN IF ~FileExists(dir, data_source, chunk)
       THEN [mf |-> m1, exc |-> "FileNotFoundError", opened |-> <<>>]
       ELSE IF ~n.ok
       THEN [mf |-> m2, exc |-> "StopIteration", opened |-> here]
       ELSE [mf |-> [m2 EXCEPT !.events_tables[data_source] = n.table,
                               !.events = put_nowait(m2.events,
                                   NextEvent(n.event.event_id, n.event, data_source)),
                               !.data_stream = read_if_none(@, here[1]),
                               !.camera_config = read_if_none(@, here[1])],
             exc |-> "none", opened |-> here]

\* __next__ opens the next chunk of an exhausted data source only with all_chunks
rollover_always(m) == TRUE

rollover_enabled(m) == m.all_chunks

\* how __next__ ends after _load_next_chunk: FileNotFoundError is passed over and
\* the event returned, any other exception leaves __next__
after_rollover_raising(exc) == IF exc = "none" THEN "event" ELSE exc

after_rollover(exc) == IF exc \in {"none", "FileNotFoundError"} THEN "event" ELSE exc

\* MultiFiles.__next__: [mf, kind, event, opened]; kind is "event" when an event
\* is returned and "StopIteration" when that exception leaves the method
mf_next(m, dir) ==
    IF m.events = <<>>
    THEN [mf |-> m, kind |-> "StopIteration", event |-> NoEvent, opened |-> <<>>]
    ELSE
    LET g == get_nowait(m.events)
        data_source == g.item.data_source
        event == g.item.event
        m1 == [m EXCEPT !.events = g.heap]
        n == TableNext(dir, data_source, m1.events_tables[data_source])
        l == load_next_chunk(m1, dir, data_source)
    IN IF n.ok
       THEN [mf |-> [m1 EXCEPT !.events_tables[data_source] = n.table,
                               !.events = put_nowait(m1.events,
                                   NextEvent(n.event.event_id, n.event, data_source))],
             kind |-> "event", event |-> event, opened |-> <<>>]
       ELSE IF ~rollover_enabled(m)
       THEN [mf |-> m1, kind |-> "event", event |-> event, opened |-> <<>>]
       ELSE [mf |-> l.mf, kind |-> after_rollover(l.exc),
             event |-> IF after_rollover(l.exc) = "event" THEN event ELSE NoEvent,
             opened |-> l.opened]

\* the loop at the end of MultiFiles.__init__, over the data sources in the
\* iteration order of the set self.data_sources
RECURSIVE init_loop(_, _, _, _)
init_loop(m, dir, order, opened) ==
    IF order = <<>>
    THEN [mf |-> m, exc |-> "none", opened |-> opened]
    ELSE LET l == load_next_chunk(m, dir, Head(order))
         IN IF l.exc # "none"
            THEN [mf |-> l.mf, exc |-> l.exc, opened |-> opened \o l.opened]
            ELSE init_loop(l.mf, dir, Tail(order), opened \o l.opened)

\* the data sources found by the glob of __init__: those with a file of the
\* chunk index of path
discover(dir, chunk) == {ds \in DataSources : FileExists(dir, ds, chunk)}

EmptyMF ==
    [all_chunks |-> TRUE, first_chunk |-> 0, data_sources |-> {},
     current_chunk |-> <<>>, open_files |-> <<>>, events |-> <<>>,
     events_tables |-> <<>>, data_stream |-> NoFile, camera_config |-> NoFile,
     handles |-> {}]

\* MultiFiles.__init__(path) with path the file of (data_source, chunk)
mf_init(dir, data_source, chunk, all_chunks, order) ==
    IF ~FileExists(dir, data_source, chunk)
    THEN [mf |-> EmptyMF, exc |-> "OSError", opened |-> <<>>]
    ELSE LET sources == discover(dir, chunk)
             m0 == [all_chunks |-> all_chunks, first_chunk |-> chunk,
                    data_sources |-> sources,
                    current_chunk |-> [ds \in sources |-> chunk - 1],
                    open_files |-> <<>>, events |-> <<>>, events_tables |-> <<>>,
                    data_stream |-> NoFile, camera_config |-> NoFile,
                    handles |-> {}]
         IN init_loop(m0, dir, order, <<>>)

\* MultiFiles.close: [data_source -> close() calls on its file] after the call
close_files(m, rel) ==
    [ds \in DataSources |-> IF ds \in DOMAIN m.open_files THEN rel[ds] + 1 ELSE rel[ds]]

\* what next(events_table) can do on a file that was closed
ClosedReads == {"record", "exhausted", "error"}

\* the MultiFiles with the table of a data source at the end of its file
at_end(m, dir, data_source) ==
    [m EXCEPT !.events_tables[data_source].pos =
        Len(FileEvents(dir, data_source, m.events_tables[data_source].chunk))]

\* MultiFiles.__next__ when the file of the pending record taken was closed and
\* reading it does what read says
mf_next_closed(m, dir, read) ==
    IF read = "error"
    THEN [mf |-> [m EXCEPT !.events = get_nowait(m.events).heap],
          kind |-> "Exception", event |-> NoEvent, opened |-> <<>>]
    ELSE IF read = "exhausted"
    THEN mf_next(at_end(m, dir, m.events[1].data_source), dir)
    ELSE mf_next(m, dir)

\* the possible results of MultiFiles.__next__, rel being the close() calls
\* made on the open files
next_results(m, dir, rel) ==
    IF m.events # <<>> /\ rel[m.events[1].data_source] > 0
    THEN {mf_next_closed(m, dir, read) : read \in ClosedReads}
    ELSE {mf_next(m, dir)}

\* the number of data sources with a pending record
n_live_sources(m) ==
    Cardinality({ds \in m.data_sources :
                    \E i \in DOMAIN m.events : m.events[i].data_source = ds})

\* n_open_files
n_open_files(m) == Cardinality(DOMAIN m.open_files)

\* the orders in which a set can be iterated
Orders(S) == {o \in [1..Cardinality(S) -> S] : \A i, j \in DOMAIN o : i # j => o[i] # o[j]}

RECURSIVE SumLen(_)
SumLen(files) == IF files = <<>> THEN 0 ELSE Len(Head(files)) + SumLen(Tail(files))

RECURSIVE n_records_of(_, _)
n_records_of(dir, sources) ==
    IF sources = {} THEN 0
    ELSE LET ds == CHOOSE x \in sources : TRUE
         IN SumLen(dir[ds]) + n_records_of(dir, sources \ {ds})

n_records(dir) == n_records_of(dir, DataSources)

\* --------------------------------------------------------------- actions
\* no MultiFiles of its own
MFIdle ==
    /\ directory = [ds \in DataSources |-> <<>>]
    /\ late_at = -1
    /\ status = "unopened"
    /\ mf = EmptyMF
    /\ last = [kind |-> "none", event |-> NoEvent]
    /\ yielded = <<>>
    /\ n_stop = -1
    /\ recorded_inputs = <<>>
    /\ closes = 0
    /\ released = [ds \in DataSources |-> 0]

NoArrayEvent ==
    [kind |-> "none", count |-> 0, event_id |-> 0, tel_ids_with_data |-> <<>>, tel |-> <<>>]

\* no ProtozfitsDL0EventSource
DL0Idle ==
    /\ tel_dirs = [t \in TelIds |-> [ds \in DataSources |-> <<>>]]
    /\ source = "unopened"
    /\ telescope_files = <<>>
    /\ tel_event_buffer = <<>>
    /\ count = 0
    /\ array_event = NoArrayEvent
    /\ log_missing = [t \in TelIds |-> 0]
    /\ n_read = [t \in TelIds |-> 0]
    /\ warn_missing = TRUE
    /\ log_level = "none"
    /\ n_trigger_chunks = 1
    /\ trigger_chunk = 0

MFInit ==
    /\ DL0Idle
    /\ NamesIdle
    /\ directory = [ds \in DataSources |-> <<>>]
    /\ late_at = -1
    /\ status = "unopened"
    /\ mf = EmptyMF
    /\ last = [kind |-> "none", event |-> NoEvent]
    /\ yielded = <<>>
    /\ n_stop = -1
    /\ recorded_inputs = <<>>
    /\ closes = 0
    /\ released = [ds \in DataSources |-> 0]

\* the data acquisition starts the next chunk file of a data source
NewChunk(ds) ==
    /\ status = "unopened"
    /\ Len(directory[ds]) <= MaxChunk
    /\ directory' = [directory EXCEPT ![ds] = Append(@, <<>>)]
    /\ UNCHANGED <<late_at, status, mf, last, yielded, n_stop, recorded_inputs,
                   closes, released>>
    /\ UNCHANGED <<dl0vars, namevars>>

\* the data acquisition writes a record to the current chunk file of a data source
WriteEvent(ds, event_id) ==
    /\ status = "unopened"
    /\ directory[ds] # <<>>
    /\ n_records(directory) < MaxRecords
    /\ directory' = [directory EXCEPT ![ds][Len(directory[ds])] = Append(@, event_id)]
    /\ UNCHANGED <<late_at, status, mf, last, yielded, n_stop, recorded_inputs,
                   closes, released>>
    /\ UNCHANGED <<dl0vars, namevars>>

\* a complete chunk file appears while the MultiFiles is open, for a data source
\* and chunk index the MultiFiles has looked for and not found
FileAppears(ds, event_id) ==
    /\ status = "open"
    /\ late_at = -1
    /\ ds \in mf.data_sources
    /\ mf.current_chunk[ds] = Len(directory[ds])
    /\ Len(directory[ds]) <= MaxChunk
    /\ directory' = [directory EXCEPT ![ds] = Append(@, <<event_id>>)]
    /\ late_at' = Len(yielded)
    /\ UNCHANGED <<status, mf, last, yielded, n_stop, recorded_inputs, closes, released>>
    /\ UNCHANGED <<dl0vars, namevars>>

\* MultiFiles(path, all_chunks=...), path the file of chunk c of data source ds
Open(ds, c, all_chunks) ==
    /\ status = "unopened"
    /\ \E order \in Orders(discover(directory, c)) :
         LET r == mf_init(directory, ds, c, all_chunks, order)
         IN /\ status' = IF r.exc = "none" THEN "open" ELSE "init_failed"
            /\ mf' = r.mf
            /\ last' = [kind |-> r.exc, event |-> NoEvent]
            /\ recorded_inputs' = r.opened
    /\ UNCHANGED <<directory, late_at, yielded, n_stop, closes, released>>
    /\ UNCHANGED <<dl0vars, namevars>>

\* the close() calls made on the files of _open_files after a __next__ with
\* result r: a file opened by the call has none
released_after(rel, r) ==
    [ds \in DataSources |->
        IF \/ ds \notin DOMAIN r.mf.open_files
           \/ \E i \in DOMAIN r.opened : r.opened[i].data_source = ds
        THEN 0 ELSE rel[ds]]

\* next(mf)
Next_ ==
    /\ status = "open"
    /\ \E r \in next_results(mf, directory, released) :
          /\ mf' = r.mf
          /\ last' = [kind |-> r.kind, event |-> r.event]
          /\ yielded' = IF r.kind = "event" THEN Append(yielded, r.event) ELSE yielded
          /\ n_stop' = IF r.kind = "StopIteration" /\ n_stop = -1 THEN Len(yielded) ELSE n_stop
          /\ recorded_inputs' = recorded_inputs \o r.opened
          /\ released' = released_after(released, r)
    /\ UNCHANGED <<directory, late_at, status, closes>>
    /\ UNCHANGED <<dl0vars, namevars>>

\* mf.close(): close() is called on every file of _open_files, which stays as it is
Close ==
    /\ status = "open"
    /\ closes < MaxClose
    /\ closes' = closes + 1
    /\ released' = close_files(mf, released)
    /\ last' = [kind |-> "closed", event |-> NoEvent]
    /\ UNCHANGED <<directory, late_at, status, mf, yielded, n_stop, recorded_inputs>>
    /\ UNCHANGED <<dl0vars, namevars>>

MFNext ==
    \/ \E ds \in DataSources : NewChunk(ds)
    \/ \E ds \in DataSources, event_id \in EventIds : WriteEvent(ds, event_id)
    \/ \E ds \in DataSources, event_id \in EventIds : FileAppears(ds, event_id)
    \/ \E ds \in DataSources, c \in Chunks, all_chunks \in BOOLEAN : Open(ds, c, all_chunks)
    \/ Next_

SpecMF == MFInit /\ [][MFNext]_vars

\* a MultiFiles that is also closed, over files that are complete when it is opened
MFCloseNext ==
    \/ \E ds \in DataSources : NewChunk(ds)
    \/ \E ds \in DataSources, event_id \in EventIds : WriteEvent(ds, event_id)
    \/ \E ds \in DataSources, c \in Chunks, all_chunks \in BOOLEAN : Open(ds, c, all_chunks)
    \/ Next_
    \/ Close

SpecMFClose == MFInit /\ [][MFCloseNext]_vars

\* ----------------------------------------------- ProtozfitsDL0EventSource
\* _get_next_tel_event reads from the telescope's MultiFiles only while the
\* buffer holds fewer records than the MultiFiles has open files
\* a record is read whatever the buffer holds
may_read_always(buffer, tel_file) == TRUE

\* the guard of the read in _get_next_tel_event
may_read(buffer, tel_file) == Cardinality(DOMAIN buffer) < n_open_files(tel_file)

\* any record read is taken for the one of the trigger
is_match_any(tel_event, event_id) == TRUE

\* the record read is the one of the trigger
is_match(tel_event, event_id) == tel_event.event_id = event_id

\* the records of all telescopes are buffered under the event id alone
buffer_key_shared(tel_id, event_id) == <<1, event_id>>

\* the key of a record in _tel_event_buffer
buffer_key(tel_id, event_id) == <<tel_id, event_id>>

\* _get_next_tel_event with a buffered record that is matched left in the buffer
tel_event_for_keeping(files, buffer, tel_id, event_id, r) ==
    LET key == buffer_key(tel_id, event_id)
        reads == may_read(buffer, files[tel_id])
        got == reads /\ r.kind = "event"
        files1 == IF reads THEN [files EXCEPT ![tel_id] = r.mf] ELSE files
    IN IF key \in DOMAIN buffer
       THEN [files |-> files, buffer |-> buffer, found |-> TRUE,
             tel_event |-> buffer[key], logged |-> 0, read |-> 0]
       ELSE IF ~got
       THEN [files |-> files1, buffer |-> buffer, found |-> FALSE,
             tel_event |-> NoEvent, logged |-> 1, read |-> 0]
       ELSE IF ~is_match(r.event, event_id)
       THEN [files |-> files1,
             buffer |-> With(buffer, buffer_key(tel_id, r.event.event_id), r.event),
             found |-> FALSE, tel_event |-> NoEvent, logged |-> 1, read |-> 1]
       ELSE [files |-> files1, buffer |-> buffer, found |-> TRUE,
             tel_event |-> r.event, logged |-> 0, read |-> 1]

\* ProtozfitsDL0EventSource._get_next_tel_event, r being what next(tel_file)
\* gives if it is called: [files, buffer, found, tel_event, logged, read]
tel_event_for(files, buffer, tel_id, event_id, r) ==
    LET key == buffer_key(tel_id, event_id)
        reads == may_read(buffer, files[tel_id])
        got == reads /\ r.kind = "event"
        files1 == IF reads THEN [files EXCEPT ![tel_id] = r.mf] ELSE files
    IN IF key \in DOMAIN buffer
       THEN [files |-> files, buffer |-> Without(buffer, key), found |-> TRUE,
             tel_event |-> buffer[key], logged |-> 0, read |-> 0]
       ELSE IF ~got
       THEN [files |-> files1, buffer |-> buffer, found |-> FALSE,
             tel_event |-> NoEvent, logged |-> 1, read |-> 0]
       ELSE IF ~is_match(r.event, event_id)
       THEN [files |-> files1,
             buffer |-> With(buffer, buffer_key(tel_id, r.event.event_id), r.event),
             found |-> FALSE, tel_event |-> NoEvent, logged |-> 1, read |-> 1]
       ELSE [files |-> files1, buffer |-> buffer, found |-> TRUE,
             tel_event |-> r.event, logged |-> 0, read |-> 1]

\* what _get_next_tel_event returned, with a record taken from the files of
\* every other telescope as well
reading_others(g, files, dirs, tel_id) ==
    [g EXCEPT !.files = [t \in DOMAIN files |->
                            IF t = tel_id THEN g.files[t]
                            ELSE mf_next(files[t], dirs[t]).mf]]

get_next_tel_event_reading_all(files, dirs, buffer, tel_id, event_id) ==
    reading_others(tel_event_for(files, buffer, tel_id, event_id,
                                 mf_next(files[tel_id], dirs[tel_id])),
                   files, dirs, tel_id)

get_next_tel_event(files, dirs, buffer, tel_id, event_id) ==
    tel_event_for(files, buffer, tel_id, event_id,
                  mf_next(files[tel_id], dirs[tel_id]))

\* log_missing is log.warning whatever the flag
log_missing_level_warning(warn) == "warning"

\* __init__: log_missing is log.warning with warn_missing and log.debug without
log_missing_level(warn) == IF warn THEN "warning" ELSE "debug"

\* the pass with the record found not put into the array event
tel_step_unattached(st, tel_id, g) ==
    [files |-> g.files, buffer |-> g.buffer,
     tel |-> st.tel,
     logged |-> [st.logged EXCEPT ![tel_id] = @ + g.logged],
     read |-> [st.read EXCEPT ![tel_id] = @ + g.read],
     exc |-> "none"]

\* the pass with the calls of log_missing left out
tel_step_unlogged(st, tel_id, g) ==
    [files |-> g.files, buffer |-> g.buffer,
     tel |-> IF g.found THEN With(st.tel, tel_id, g.tel_event) ELSE st.tel,
     logged |-> st.logged,
     read |-> [st.read EXCEPT ![tel_id] = @ + g.read],
     exc |-> "none"]

\* one pass of the loop over tel_ids_with_data, g being what
\* _get_next_tel_event returned for tel_id
tel_step(st, tel_id, g) ==
    [files |-> g.files, buffer |-> g.buffer,
     tel |-> IF g.found THEN With(st.tel, tel_id, g.tel_event) ELSE st.tel,
     logged |-> [st.logged EXCEPT ![tel_id] = @ + g.logged],
     read |-> [st.read EXCEPT ![tel_id] = @ + g.read],
     exc |-> "none"]

\* the loop over subarray_trigger.tel_ids_with_data in _generator:
\* st = [files, buffer, tel, logged, read, exc]
RECURSIVE tel_loop(_, _, _, _)
tel_loop(st, dirs, tel_ids, event_id) ==
    IF tel_ids = <<>> THEN st
    ELSE IF Head(tel_ids) \notin DOMAIN st.files
    THEN [st EXCEPT !.exc = "KeyError"]
    ELSE tel_loop(tel_step(st, Head(tel_ids),
                           get_next_tel_event(st.files, dirs, st.buffer,
                                              Head(tel_ids), event_id)),
                  dirs, Tail(tel_ids), event_id)

\* the data sources of a telescope that have files
with_files(dir) == {ds \in DataSources : dir[ds] # <<>>}

\* the data source of the first of the sorted files of a telescope (MultiFiles
\* looks for the files of all data sources whichever of them it is given)
first_file(dir) == CHOOSE ds \in with_files(dir) : TRUE

\* ProtozfitsDL0EventSource._open_telescope_files, over the telescopes tel_ids of
\* the subarray in ascending order: [files, exc]
RECURSIVE open_telescope_files(_, _, _, _)
\* r being what MultiFiles(first_file) gave for tel_id
opened_telescope_file(files, dirs, tel_ids, orders, tel_id, r) ==
    IF r.exc # "none"
    THEN [files |-> files, exc |-> r.exc]
    ELSE open_telescope_files(With(files, tel_id, r.mf), dirs, tel_ids \ {tel_id}, orders)

open_telescope_files(files, dirs, tel_ids, orders) ==
    IF tel_ids = {} THEN [files |-> files, exc |-> "none"]
    ELSE LET tel_id == CHOOSE t \in tel_ids : \A u \in tel_ids : t <= u
         IN IF with_files(dirs[tel_id]) = {}
            THEN open_telescope_files(files, dirs, tel_ids \ {tel_id}, orders)
            ELSE opened_telescope_file(files, dirs, tel_ids, orders, tel_id,
                    mf_init(dirs[tel_id], first_file(dirs[tel_id]), 0, TRUE,
                            orders[tel_id]))

\* the orders in which tel_ids_with_data can list telescopes
TelLists == UNION {Orders(S) : S \in SUBSET TelIds}

RECURSIVE n_tel_records(_, _)
n_tel_records(dirs, tel_ids) ==
    IF tel_ids = {} THEN 0
    ELSE LET t == CHOOSE x \in tel_ids : TRUE
         IN n_records(dirs[t]) + n_tel_records(dirs, tel_ids \ {t})

\* ------------------------------------------------------------ DL0 actions
DL0Init == MFIdle /\ DL0Idle /\ NamesIdle

\* the data acquisition starts the chunk file of a data source of a telescope
\* (here every data source of a telescope has one chunk file; chunk rollover is
\* what SpecMF explores)
TelNewChunk(t, ds) ==
    /\ source = "unopened"
    /\ tel_dirs[t][ds] = <<>>
    /\ tel_dirs' = [tel_dirs EXCEPT ![t][ds] = Append(@, <<>>)]
    /\ UNCHANGED <<source, telescope_files, tel_event_buffer, count, array_event,
                   log_missing, n_read, warn_missing, log_level, n_trigger_chunks,
                   trigger_chunk>>
    /\ UNCHANGED <<mfvars, namevars>>

\* the data acquisition writes a telescope event to the current chunk file
TelWriteEvent(t, ds, event_id) ==
    /\ source = "unopened"
    /\ tel_dirs[t][ds] # <<>>
    /\ n_tel_records(tel_dirs, TelIds) < MaxTelRecords
    /\ tel_dirs' = [tel_dirs EXCEPT ![t][ds][Len(tel_dirs[t][ds])] = Append(@, event_id)]
    /\ UNCHANGED <<source, telescope_files, tel_event_buffer, count, array_event,
                   log_missing, n_read, warn_missing, log_level, n_trigger_chunks,
                   trigger_chunk>>
    /\ UNCHANGED <<mfvars, namevars>>

\* ProtozfitsDL0EventSource(input_url, warn_missing=warn)
DL0Open(warn) ==
    /\ source = "unopened"
    /\ warn_missing' = warn
    /\ \E orders \in [TelIds -> UNION {Orders(S) : S \in SUBSET DataSources}] :
         /\ \A t \in TelIds : orders[t] \in Orders(with_files(tel_dirs[t]))
         /\ \E r \in {open_telescope_files(<<>>, tel_dirs, TelIds, orders)} :
               /\ source' = IF r.exc = "none" THEN "open" ELSE "init_failed"
               /\ telescope_files' = r.files
               /\ array_event' = [NoArrayEvent EXCEPT !.kind = r.exc]
    /\ tel_event_buffer' = <<>>
    /\ UNCHANGED <<tel_dirs, count, log_missing, n_read, log_level, n_trigger_chunks,
                   trigger_chunk>>
    /\ UNCHANGED <<mfvars, namevars>>

\* one step of _generator: the next subarray trigger record is read, its
\* telescope events are looked up and the array event is yielded
GeneratorStep(event_id, tel_ids) ==
    /\ source = "open"
    /\ event_id > array_event.event_id
    /\ \E st \in {tel_loop([files |-> telescope_files, buffer |-> tel_event_buffer,
                              tel |-> <<>>, logged |-> [t \in TelIds |-> 0],
                              read |-> [t \in TelIds |-> 0], exc |-> "none"],
                             tel_dirs, tel_ids, event_id)} :
          /\ telescope_files' = st.files
          /\ tel_event_buffer' = st.buffer
          /\ log_missing' = st.logged
          /\ log_level' = IF \E t \in TelIds : st.logged[t] > 0
                           THEN log_missing_level(warn_missing) ELSE "none"
          /\ n_read' = st.read
          /\ array_event' = [kind |-> IF st.exc = "none" THEN "event" ELSE st.exc,
                             count |-> count, event_id |-> event_id,
                             tel_ids_with_data |-> tel_ids, tel |-> st.tel]
          /\ source' = IF st.exc = "none" THEN "open" ELSE "finished"
    /\ count' = count + 1
    /\ UNCHANGED <<tel_dirs, warn_missing, n_trigger_chunks, trigger_chunk>>
    /\ UNCHANGED <<mfvars, namevars>>

\* the file of the next chunk index is opened when a trigger file is exhausted
next_trigger_file_rolling(chunk, n_chunks) ==
    IF chunk + 1 < n_chunks THEN chunk + 1 ELSE chunk

\* the trigger file read after the one of a chunk index is exhausted: the loop
\* of _generator is over the SubarrayEvents of the one File(input_url)
next_trigger_file(chunk, n_chunks) == chunk

\* the data acquisition starts a further chunk file of the subarray trigger stream
TriggerNewChunk ==
    /\ source = "unopened"
    /\ n_trigger_chunks <= MaxTriggerChunk
    /\ n_trigger_chunks' = n_trigger_chunks + 1
    /\ UNCHANGED <<tel_dirs, source, telescope_files, tel_event_buffer, count,
                   array_event, log_missing, n_read, warn_missing, log_level,
                   trigger_chunk>>
    /\ UNCHANGED <<mfvars, namevars>>

\* the subarray trigger file read has no more records: _generator returns
\* unless there is a further file to read
TriggersExhausted ==
    /\ source = "open"
    /\ trigger_chunk' = next_trigger_file(trigger_chunk, n_trigger_chunks)
    /\ IF trigger_chunk' = trigger_chunk
       THEN /\ source' = "finished"
            /\ array_event' = [array_event EXCEPT !.kind = "StopIteration"]
       ELSE UNCHANGED <<source, array_event>>
    /\ UNCHANGED <<tel_dirs, telescope_files, tel_event_buffer, count, log_missing, n_read,
                   warn_missing, log_level, n_trigger_chunks>>
    /\ UNCHANGED <<mfvars, namevars>>

DL0Next ==
    \/ \E t \in TelIds, ds \in DataSources : TelNewChunk(t, ds)
    \/ \E t \in TelIds, ds \in DataSources, event_id \in TriggerIds : TelWriteEvent(t, ds, event_id)
    \/ \E warn \in BOOLEAN : DL0Open(warn)
    \/ \E event_id \in TriggerIds, tel_ids \in TelLists : GeneratorStep(event_id, tel_ids)
    \/ TriggersExhausted

SpecDL0 == DL0Init /\ [][DL0Next]_vars

\* the same with a subarray trigger stream of several chunk files
DL0ChunksNext ==
    \/ TriggerNewChunk
    \/ \E t \in TelIds, ds \in DataSources : TelNewChunk(t, ds)
    \/ \E t \in TelIds, ds \in DataSources, event_id \in TriggerIds : TelWriteEvent(t, ds, event_id)
    \/ \E warn \in BOOLEAN : DL0Open(warn)
    \/ \E event_id \in TriggerIds, tel_ids \in TelLists : GeneratorStep(event_id, tel_ids)
    \/ TriggersExhausted

SpecDL0Chunks == DL0Init /\ [][DL0ChunksNext]_vars

\* ------------------------------------------------- MultiFiles: properties
Range(seq) == {seq[i] : i \in DOMAIN seq}

NonDecreasing(ids) == \A i, j \in DOMAIN ids : i < j => ids[i] <= ids[j]

RECURSIVE Concat(_)
Concat(files) == IF files = <<>> THEN <<>> ELSE Head(files) \o Concat(Tail(files))

\* every data source's records, its chunks concatenated in chunk order, are
\* non-decreasing in event_id
SourcesSorted == \A ds \in DataSources : NonDecreasing(Concat(directory[ds]))

EventIdsOf(events) == [i \in DOMAIN events |-> events[i].event_id]

\* the records of the chunk files c of the data sources, lo <= c <= hi
RecordsOf(dir, sources, lo, hi) ==
    {[event_id |-> dir[ds][c + 1][i], data_source |-> ds, chunk |-> c, idx |-> i] :
        <<ds, c, i>> \in {t \in sources \X Chunks \X (1..MaxRecords) :
            /\ t[2] >= lo /\ t[2] <= hi
            /\ t[2] < Len(dir[t[1]])
            /\ t[3] <= Len(dir[t[1]][t[2] + 1])}}

\* the positions in the priority queue of the pending records of a data source
Pending(m, ds) == {i \in DOMAIN m.events : m.events[i].data_source = ds}

\* the chunk indices of the files opened for a data source, in the order opened
OpenedChunks(inputs, ds) ==
    LET mine == SelectSeq(inputs, LAMBDA e : e.data_source = ds)
    IN [i \in DOMAIN mine |-> mine[i].chunk]

\* the events returned before the first StopIteration
YieldedUntilStop == SubSeq(yielded, 1, n_stop)

\* the record at the head of the queue comes from a table with no more records
HeadExhausted ==
    /\ status = "open"
    /\ mf.events # <<>>
    /\ LET ds == mf.events[1].data_source
           table == mf.events_tables[ds]
       IN table.pos = Len(FileEvents(directory, ds, table.chunk))

HeadSource == mf.events[1].data_source

\* C1: if every data source's record sequence is non-decreasing in event_id,
\* the events returned by successive __next__ calls are non-decreasing in event_id
C1_MergedNonDecreasing ==
    SourcesSorted => NonDecreasing(EventIdsOf(yielded))

\* three events returned from two sorted data sources, the second source's
\* record between two of the first
C1_Witness ==
    /\ status = "open"
    /\ SourcesSorted
    /\ Len(yielded) = 3
    /\ yielded[1].data_source # yielded[2].data_source
    /\ yielded[1].data_source = yielded[3].data_source
    /\ yielded[1].event_id < yielded[2].event_id

\* C2: with all_chunks=True, on a directory that does not change, the events
\* returned until StopIteration are every record of every chunk (from the chunk
\* of path on) of every discovered data source, each exactly once
C2_AllRecordsOnce ==
    (status = "open" /\ mf.all_chunks /\ n_stop # -1 /\ late_at = -1) =>
        LET all == RecordsOf(directory, mf.data_sources, mf.first_chunk, MaxChunk)
        IN /\ Range(YieldedUntilStop) = all
           /\ Len(YieldedUntilStop) = Cardinality(all)

\* C3: with all_chunks=False only files of the chunk index of path are opened,
\* the events returned are records of these files, none twice, and at
\* StopIteration they are all of them
C3_OnlyStartingChunks ==
    (status = "open" /\ ~mf.all_chunks) =>
        LET first == RecordsOf(directory, mf.data_sources, mf.first_chunk, mf.first_chunk)
        IN /\ \A i \in DOMAIN recorded_inputs : recorded_inputs[i].chunk = mf.first_chunk
           /\ Range(yielded) \subseteq first
           /\ Len(yielded) = Cardinality(Range(yielded))
           /\ n_stop # -1 => Range(yielded) = first /\ Len(yielded) = n_stop

\* the iteration has ended although a discovered data source has a file with
\* records at the next chunk index
C3_Witness ==
    /\ status = "open"
    /\ ~mf.all_chunks
    /\ n_stop >= 2
    /\ \E ds \in mf.data_sources :
          /\ FileExists(directory, ds, mf.first_chunk + 1)
          /\ FileEvents(directory, ds, mf.first_chunk + 1) # <<>>

C4_Consecutive ==
    \A ds \in DataSources :
        LET cs == OpenedChunks(recorded_inputs, ds)
        IN \A i \in DOMAIN cs : cs[i] = mf.first_chunk + i - 1

C4_Rollover ==
    (mf.all_chunks /\ HeadExhausted /\ mf' # mf) =>
        LET ds == HeadSource
            chunk == mf.events_tables[ds].chunk + 1
        IN FileExists(directory, ds, chunk) =>
            /\ recorded_inputs' =
                   Append(recorded_inputs, [data_source |-> ds, chunk |-> chunk])
            /\ FileEvents(directory, ds, chunk) # <<>> =>
                   /\ mf'.open_files[ds] = chunk
                   /\ \E i \in DOMAIN mf'.events :
                         mf'.events[i].event =
                             [event_id |-> FileEvents(directory, ds, chunk)[1],
                              data_source |-> ds, chunk |-> chunk, idx |-> 1]

\* C4: the chunk indices of the files opened for a data source are consecutive
\* from the chunk index of path, and a __next__ that finds the chunk of the
\* popped record exhausted opens the file of that data source with the chunk
\* index one higher, if there is one, and queues its first record
C4_NextChunkIsNext == [](C4_Consecutive) /\ [][C4_Rollover]_vars

\* a data source rolled over to its second chunk and the record of that chunk
\* was returned
C4_Witness ==
    /\ status = "open"
    /\ mf.all_chunks
    /\ \E ds \in mf.data_sources :
          /\ OpenedChunks(recorded_inputs, ds) = <<mf.first_chunk, mf.first_chunk + 1>>
          /\ \E i \in DOMAIN yielded :
                yielded[i].data_source = ds /\ yielded[i].chunk = mf.first_chunk + 1

\* a data source whose next chunk was looked for and not found
EndedIn(st, m, ds) ==
    /\ st = "open"
    /\ m.all_chunks
    /\ ds \in m.data_sources
    /\ ds \notin DOMAIN m.open_files

Ended(ds) == EndedIn(status, mf, ds)

C5_Detect ==
    (mf.all_chunks /\ HeadExhausted /\ mf' # mf) =>
        LET ds == HeadSource
        IN ~FileExists(directory, ds, mf.events_tables[ds].chunk + 1) =>
            /\ last' = [kind |-> "event", event |-> mf.events[1].event]
            /\ EndedIn(status', mf', ds)

C5_Permanent ==
    \A ds \in DataSources :
        Ended(ds) =>
            /\ EndedIn(status', mf', ds)
            /\ Pending(mf, ds) = {} /\ Pending(mf', ds) = {}
            /\ mf'.events_tables[ds] = mf.events_tables[ds]
            /\ OpenedChunks(recorded_inputs', ds) = OpenedChunks(recorded_inputs, ds)
            /\ Len(yielded') > Len(yielded) =>
                   yielded'[Len(yielded')].data_source # ds

\* C5: the __next__ that finds no file for the next chunk index of a data source
\* returns the popped event without an exception, and from then on the data
\* source has no pending record, its table is not read, none of its files is
\* opened and none of its records is returned, whatever files appear
C5_MissingChunkEndsSource == [][C5_Detect /\ C5_Permanent]_vars

\* a file for the chunk index looked for appeared after the data source ended
\* and an event was returned after that
C5_Witness ==
    \E ds \in DataSources :
        /\ Ended(ds)
        /\ late_at >= 0
        /\ FileExists(directory, ds, mf.current_chunk[ds])
        /\ Len(yielded) > late_at

\* C6: __next__ raises StopIteration only when the priority queue is empty
C6_StopOnlyWhenEmpty ==
    (status = "open" /\ last.kind = "StopIteration") => mf.events = <<>>

\* C7: the constructor, given an existing path, succeeds and leaves exactly one
\* pending record for each discovered data source whose starting chunk has
\* records, and none for the others
C7_SeedOnePerSource ==
    (status # "unopened" /\ last.kind # "OSError" /\ yielded = <<>> /\ n_stop = -1) =>
        /\ status = "open"
        /\ \A ds \in DataSources :
              Cardinality(Pending(mf, ds)) =
                  IF /\ FileExists(directory, ds, mf.first_chunk)
                     /\ FileEvents(directory, ds, mf.first_chunk) # <<>>
                  THEN 1 ELSE 0

\* -------------------------------------- ProtozfitsDL0EventSource: properties
\* the last step of _generator handled a subarray trigger record
Stepped == array_event.kind \in {"event", "KeyError"}

Listed(t, tel_ids) == \E i \in DOMAIN tel_ids : tel_ids[i] = t

\* _get_next_tel_event was called for telescope t: no telescope listed before
\* it, nor t itself, made the loop raise KeyError
Handled(t, tel_ids, files) ==
    \E i \in DOMAIN tel_ids :
        tel_ids[i] = t /\ \A j \in 1..i : tel_ids[j] \in DOMAIN files

\* the event ids of all records in the files of a telescope
StreamIds(t) ==
    {r.event_id : r \in RecordsOf(tel_dirs[t], DataSources, 0, MaxChunk)}

\* the records a MultiFiles has not returned yet: the pending ones and those
\* after the table positions of its open files
Unread(m, dir) ==
    {m.events[i].event : i \in DOMAIN m.events} \cup
    {r \in RecordsOf(dir, DOMAIN m.open_files, 0, MaxChunk) :
        \/ r.chunk > m.events_tables[r.data_source].chunk
        \/ /\ r.chunk = m.events_tables[r.data_source].chunk
           /\ r.idx > m.events_tables[r.data_source].pos}

\* the buffered records of a telescope
Buffered(buffer, t) == {buffer[k] : k \in {x \in DOMAIN buffer : x[1] = t}}

\* every listed telescope has a MultiFiles
AllConfigured(tel_ids, files) ==
    \A i \in DOMAIN tel_ids : tel_ids[i] \in DOMAIN files

\* C8: if the files of a telescope that has a MultiFiles hold no record with the
\* event id of a trigger that lists the telescope, the array event of the
\* trigger is yielded without the telescope, log_missing is called exactly once
\* for it and no exception leaves the generator
C8_OmittedIdYieldedMissing ==
    \A t \in TelIds :
        (/\ Stepped
         /\ Listed(t, array_event.tel_ids_with_data)
         /\ t \in DOMAIN telescope_files
         /\ array_event.event_id \notin StreamIds(t)) =>
            /\ array_event.kind = "event"
            /\ t \notin DOMAIN array_event.tel
            /\ log_missing[t] = 1

\* the same, for triggers that list only telescopes that have a MultiFiles
C8_WhenAllConfigured ==
    AllConfigured(array_event.tel_ids_with_data, telescope_files) =>
        C8_OmittedIdYieldedMissing

\* the record _get_next_tel_event would read from the MultiFiles of telescope t
NextOf(t) == mf_next(telescope_files[t], tel_dirs[t])

\* the event ids of the next n records of a MultiFiles
RECURSIVE NextIds(_, _, _)
NextIds(m, dir, n) ==
    IF n = 0 THEN {}
    ELSE LET r == mf_next(m, dir)
         IN IF r.kind # "event" THEN {}
            ELSE {r.event.event_id} \cup NextIds(r.mf, dir, n - 1)

\* C9 as claimed: a trigger that lists just telescope t, whose event id is not
\* buffered for t and is among the next n_open_files(t) records of t's
\* MultiFiles, gets that record attached
C9_FoundWithinOpenFiles ==
    [][\A t \in TelIds :
        (/\ source = "open"
         /\ count' = count + 1
         /\ array_event'.tel_ids_with_data = <<t>>
         /\ t \in DOMAIN telescope_files
         /\ <<t, array_event'.event_id>> \notin DOMAIN tel_event_buffer
         /\ array_event'.event_id \in
                NextIds(telescope_files[t], tel_dirs[t], n_open_files(telescope_files[t]))) =>
            /\ t \in DOMAIN array_event'.tel
            /\ array_event'.tel[t].event_id = array_event'.event_id]_vars

C9_Step(t) ==
    LET event_id == array_event'.event_id
        key == <<t, event_id>>
        next == NextOf(t)
    IN (/\ source = "open"
        /\ count' = count + 1
        /\ Handled(t, array_event'.tel_ids_with_data, telescope_files)) =>
           /\ n_read'[t] <= 1
           /\ key \in DOMAIN tel_event_buffer =>
                 /\ n_read'[t] = 0
                 /\ log_missing'[t] = 0
                 /\ t \in DOMAIN array_event'.tel
                 /\ array_event'.tel[t] = tel_event_buffer[key]
                 /\ key \notin DOMAIN tel_event_buffer'
           /\ (key \notin DOMAIN tel_event_buffer /\ n_read'[t] = 0) =>
                 /\ t \notin DOMAIN array_event'.tel
                 /\ log_missing'[t] = 1
                 /\ Buffered(tel_event_buffer', t) = Buffered(tel_event_buffer, t)
           /\ (key \notin DOMAIN tel_event_buffer /\ n_read'[t] = 1) =>
                 /\ n_open_files(telescope_files[t]) >= 1
                 /\ next.kind = "event"
                 /\ telescope_files'[t] = next.mf
                 /\ IF next.event.event_id = event_id
                    THEN /\ t \in DOMAIN array_event'.tel
                         /\ array_event'.tel[t] = next.event
                         /\ log_missing'[t] = 0
                    ELSE /\ t \notin DOMAIN array_event'.tel
                         /\ log_missing'[t] = 1
                         /\ <<t, next.event.event_id>> \in DOMAIN tel_event_buffer'
                         /\ tel_event_buffer'[<<t, next.event.event_id>>] = next.event
           /\ (array_event'.tel_ids_with_data = <<t>> /\ n_read'[t] = 1) =>
                 Cardinality(DOMAIN tel_event_buffer) < n_open_files(telescope_files[t])

\* C9 as amended: handling a trigger for telescope t takes the record buffered
\* under the trigger's event id if there is one and otherwise reads at most
\* one record from t's MultiFiles, and that only while the buffer holds fewer
\* records than the MultiFiles has open files; the record read is attached if
\* it has the trigger's event id, otherwise it is buffered under its own id
\* and the telescope is reported missing without a further read
C9_AtMostOneRecordRead == [][\A t \in TelIds : C9_Step(t)]_vars

\* a record was read for a trigger with another event id and buffered
C9_Witness ==
    \E t \in TelIds :
        /\ array_event.kind = "event"
        /\ Listed(t, array_event.tel_ids_with_data)
        /\ n_read[t] = 1
        /\ log_missing[t] = 1
        /\ \E k \in DOMAIN tel_event_buffer : k[1] = t /\ k[2] # array_event.event_id
        /\ array_event.event_id \in StreamIds(t)

\* the records of telescope t that could still be attached, buffered or unread,
\* all have event ids below event_id, and there are more than n_open_files(t)
Desynchronized(t, event_id) ==
    LET left == Buffered(tel_event_buffer, t) \cup Unread(telescope_files[t], tel_dirs[t])
    IN /\ \A r \in left : r.event_id < event_id
       /\ Cardinality(left) > n_open_files(telescope_files[t])

C10_Step(t) ==
    (/\ source = "open"
     /\ count' = count + 1
     /\ Listed(t, array_event'.tel_ids_with_data)
     /\ t \in DOMAIN telescope_files
     /\ Desynchronized(t, array_event'.event_id)) =>
        /\ array_event'.kind = "event"
        /\ t \notin DOMAIN array_event'.tel
        /\ n_read'[t] <= n_open_files(telescope_files[t])

\* C10: a trigger listing a telescope whose remaining records, more than
\* n_open_files of them, are all behind the trigger's event id is yielded
\* without that telescope, and at most n_open_files records of the telescope
\* are read for it
C10_DesynchronizedBounded == [][\A t \in TelIds : C10_Step(t)]_vars

\* the same, for triggers that list only telescopes that have a MultiFiles
C10_WhenAllConfigured ==
    [][AllConfigured(array_event'.tel_ids_with_data, telescope_files) =>
           \A t \in TelIds : C10_Step(t)]_vars

\* C11: every subarray trigger record read gives one array event, with the
\* counts 0, 1, 2, ... and the event id of the trigger, and the generator ends
\* only when the trigger file has no more records
C11_OneEventPerTrigger ==
    /\ Stepped => (array_event.kind = "event" /\ array_event.count = count - 1)
    /\ (source = "finished" /\ count > 0) => array_event.kind = "StopIteration"

\* the same, for triggers that list only telescopes that have a MultiFiles
C11_WhenAllConfigured ==
    AllConfigured(array_event.tel_ids_with_data, telescope_files) =>
        C11_OneEventPerTrigger

\* C12: a trigger that lists a telescope for which no MultiFiles was opened
\* still gives its array event, and the generator goes on
C12_UnconfiguredNotFatal ==
    (/\ Stepped
     /\ ~AllConfigured(array_event.tel_ids_with_data, telescope_files)) =>
        /\ array_event.kind = "event"
        /\ source = "open"

\* C13: when the constructor of ProtozfitsDL0EventSource has failed, none of
\* the MultiFiles it made for earlier telescopes holds an open file
C13_NoHandleAfterFailedInit ==
    source = "init_failed" =>
        \A t \in DOMAIN telescope_files : n_open_files(telescope_files[t]) = 0

\* ------------------------------------------------- MultiFiles.close: properties
\* C14: right after a call of close() every file the MultiFiles holds has been
\* closed, and closed once: a second call closes no file again
C14_CloseIdempotent ==
    (status = "open" /\ last.kind = "closed") =>
        \A ds \in DOMAIN mf.open_files : released[ds] = 1

\* C15: after close() every __next__ ends with StopIteration
C15_ExhaustedAfterClose ==
    (status = "open" /\ closes > 0 /\ last.kind # "closed") =>
        last.kind = "StopIteration"

\* ----------------------------------------- MultiFiles: the files it looks for
FileNames == [data_source : DataSources, timestamp : Timestamps, obs_id : ObsIds,
              chunk : Chunks]

\* a file name matches the pattern made of info with the data source
\* (any_source) and the timestamp (any_timestamp) replaced by "*"
matches_any_timestamp(name, info, any_source, any_timestamp) ==
    /\ name.obs_id = info.obs_id
    /\ name.chunk = info.chunk
    /\ (any_source \/ name.data_source = info.data_source)

matches(name, info, any_source, any_timestamp) ==
    /\ name.obs_id = info.obs_id
    /\ name.chunk = info.chunk
    /\ (any_source \/ name.data_source = info.data_source)
    /\ (any_timestamp \/ name.timestamp = info.timestamp)

\* self.directory.glob(pattern): the matching files, in the order of the listing
glob(listing, info, any_source, any_timestamp) ==
    SelectSeq(listing, LAMBDA name : matches(name, info, any_source, any_timestamp))

\* the order of the data sources in file names
SourceIndex(data_source) == IF data_source = "SDH001" THEN 1 ELSE 2

\* the order of paths: TEL..._<data_source>_<timestamp>_..._OBSID<obs_id>_CHUNK<chunk>
path_lt(a, b) ==
    LET ka == <<SourceIndex(a.data_source), a.timestamp, a.obs_id, a.chunk>>
        kb == <<SourceIndex(b.data_source), b.timestamp, b.obs_id, b.chunk>>
    IN \E i \in 1..4 : ka[i] < kb[i] /\ \A j \in 1..(i - 1) : ka[j] = kb[j]

\* sorted(paths)[0]
sorted_first(paths) ==
    CHOOSE f \in Range(paths) : \A g \in Range(paths) : g = f \/ path_lt(f, g)

\* sorted(paths)[-1]
sorted_last(paths) ==
    CHOOSE f \in Range(paths) : \A g \in Range(paths) : g = f \/ path_lt(g, f)

\* the data sources of the paths found by the glob of __init__
sources_found(paths) == {paths[i].data_source : i \in DOMAIN paths}

\* the files _load_next_chunk finds for a chunk of a data source
chunk_paths(n, listing, data_source, chunk) ==
    glob(listing, [n.path EXCEPT !.data_source = data_source, !.chunk = chunk],
         FALSE, n.ignore_timestamp)

\* MultiFiles.__init__ on file names; every data source found has a file of
\* the chunk of path
named_init(listing, path, ignore_timestamp, all_source_ids) ==
    LET sources == sources_found(glob(listing, path, TRUE, ignore_timestamp))
        n0 == [status |-> "open", path |-> path, ignore_timestamp |-> ignore_timestamp,
               all_source_ids |-> all_source_ids, data_sources |-> sources,
               current_chunk |-> [ds \in sources |-> path.chunk],
               open_files |-> <<>>, candidates |-> <<>>]
    IN [n0 EXCEPT
          !.open_files = [ds \in sources |->
                            sorted_last(chunk_paths(n0, listing, ds, path.chunk))],
          !.candidates = [ds \in sources |->
                            Range(chunk_paths(n0, listing, ds, path.chunk))]]

\* MultiFiles._load_next_chunk on file names
named_load_next_chunk(n, listing, data_source) ==
    LET chunk == n.current_chunk[data_source] + 1
        paths == chunk_paths(n, listing, data_source, chunk)
        n1 == [n EXCEPT !.current_chunk[data_source] = chunk,
                        !.open_files = Without(n.open_files, data_source),
                        !.candidates = Without(n.candidates, data_source)]
    IN IF paths = <<>> THEN n1
       ELSE [n1 EXCEPT !.open_files = With(n1.open_files, data_source, sorted_last(paths)),
                       !.candidates = With(n1.candidates, data_source, Range(paths))]

\* a file in the directory whose name is not one of the filename_convention
Unconventional == [data_source |-> "notes", timestamp |-> 0, obs_id |-> 0, chunk |-> 0]

\* every name is taken for one of the filename_convention
conforms_any(name) == TRUE

\* the regex of the filename_convention matches the name
conforms(name) == name \in FileNames

\* the state of a MultiFiles whose constructor raised exc
named_failed(path, exc) ==
    [status |-> exc, path |-> path, ignore_timestamp |-> TRUE,
     all_source_ids |-> TRUE, data_sources |-> {}, current_chunk |-> <<>>,
     open_files |-> <<>>, candidates |-> <<>>]

\* MultiFiles.__init__ from its first line: the checks of path, then the rest
named_construct(listing, path, ignore_timestamp, all_source_ids) ==
    IF path \notin Range(listing) THEN named_failed(path, "OSError")
    ELSE IF ~conforms(path) THEN named_failed(path, "ValueError")
    ELSE named_init(listing, path, ignore_timestamp, all_source_ids)

\* a file is written to the directory
AddFile(name) ==
    /\ named.status = "unopened"
    /\ name \notin file_names
    /\ Cardinality(file_names) < MaxFiles
    /\ file_names' = file_names \cup {name}
    /\ UNCHANGED <<named, codec>>
    /\ UNCHANGED <<mfvars, dl0vars>>

\* MultiFiles(path, ignore_timestamp=..., all_source_ids=...)
NamedOpen(path, ignore_timestamp, all_source_ids) ==
    /\ named.status = "unopened"
    /\ \E listing \in Orders(file_names) :
          named' = named_construct(listing, path, ignore_timestamp, all_source_ids)
    /\ UNCHANGED <<file_names, codec>>
    /\ UNCHANGED <<mfvars, dl0vars>>

\* the file of a data source is exhausted and __next__ calls _load_next_chunk
NamedNextChunk(data_source) ==
    /\ named.status = "open"
    /\ data_source \in DOMAIN named.open_files
    /\ named.current_chunk[data_source] < MaxChunk
    /\ \E listing \in Orders(file_names) :
          named' = named_load_next_chunk(named, listing, data_source)
    /\ UNCHANGED <<file_names, codec>>
    /\ UNCHANGED <<mfvars, dl0vars>>

NamesInit == MFIdle /\ DL0Idle /\ NamesIdle

NamesNext ==
    \/ \E name \in FileNames \cup {Unconventional} : AddFile(name)
    \/ \E path \in FileNames \cup {Unconventional}, ignore_timestamp \in BOOLEAN, all_source_ids \in BOOLEAN :
          NamedOpen(path, ignore_timestamp, all_source_ids)
    \/ \E data_source \in DataSources : NamedNextChunk(data_source)

SpecNames == NamesInit /\ [][NamesNext]_vars

\* ------------------------------------------------ file names: properties
\* the constructor has returned and no data source has moved to a next chunk
JustOpened ==
    /\ named.status = "open"
    /\ \A ds \in named.data_sources : named.current_chunk[ds] = named.path.chunk

\* the files of the run and chunk of path
Siblings(any_timestamp) ==
    {f \in file_names :
        /\ f.obs_id = named.path.obs_id
        /\ f.chunk = named.path.chunk
        /\ (any_timestamp \/ f.timestamp = named.path.timestamp)}

\* C16: the file open for a data source is one of the files that matched the
\* pattern of its chunk, and the last of them in the order of paths, whatever
\* the order in which the directory lists them
C16_LastCandidateOpened ==
    \A ds \in DOMAIN named.open_files :
        /\ named.open_files[ds] \in named.candidates[ds]
        /\ \A c \in named.candidates[ds] :
              c = named.open_files[ds] \/ path_lt(c, named.open_files[ds])

\* two files matched the pattern of a chunk
C16_Witness ==
    \E ds \in DOMAIN named.open_files : Cardinality(named.candidates[ds]) >= 2

\* C18: with all_source_ids the data sources of all files of the run and chunk
\* of path are opened, without it only the data source of path
C18_AllSourceIds ==
    JustOpened =>
        /\ named.data_sources =
              IF named.all_source_ids
              THEN {f.data_source : f \in Siblings(named.ignore_timestamp)}
              ELSE {named.path.data_source}
        /\ DOMAIN named.open_files = named.data_sources

\* C19: with ignore_timestamp the data sources of all files of the run and
\* chunk of path are opened whatever their timestamps; without it only those
\* of the files with the timestamp of path, and only files with that timestamp
C19_IgnoreTimestamp ==
    JustOpened =>
        /\ named.data_sources =
              {f.data_source : f \in Siblings(named.ignore_timestamp)}
        /\ DOMAIN named.open_files = named.data_sources
        /\ ~named.ignore_timestamp =>
              \A ds \in named.data_sources :
                  named.open_files[ds].timestamp = named.path.timestamp

\* a data source whose file has another timestamp is left out
C19_Witness ==
    /\ JustOpened
    /\ ~named.ignore_timestamp
    /\ \E f \in Siblings(TRUE) : f.data_source \notin named.data_sources

\* a data source whose file has another timestamp is opened
C19_WitnessIgnored ==
    /\ JustOpened
    /\ named.ignore_timestamp
    /\ \E ds \in named.data_sources :
          named.open_files[ds].timestamp # named.path.timestamp

\* the constructor was given a path that is not a file of the directory, or a
\* file whose name is not one of the filename_convention
BadPath == named.path \notin file_names \/ named.path = Unconventional

\* C21: a MultiFiles constructed with a path that is not an existing file, or
\* whose name does not match the filename_convention, fails in the constructor
\* with an exception; no data source is looked for and no file is opened
C21_BadPathFailsInConstructor ==
    (named.status # "unopened" /\ BadPath) =>
        /\ named.status \in {"OSError", "ValueError"}
        /\ named.path \notin file_names => named.status = "OSError"
        /\ named.data_sources = {}
        /\ named.open_files = <<>>

\* the constructor was given an existing file with another kind of name, beside
\* a file of the convention
C21_Witness ==
    /\ named.status = "ValueError"
    /\ named.path = Unconventional
    /\ \E f \in file_names : f \in FileNames

\* ------------------------------------------ MultiFiles: further properties
\* C17: of two records with the same event id from different data sources the
\* one of the data source found first (the first in path order) is returned first
C17_TiesInDiscoveryOrder ==
    SourcesSorted =>
        \A i, j \in DOMAIN yielded :
            (/\ i < j
             /\ yielded[i].event_id = yielded[j].event_id
             /\ yielded[i].data_source # yielded[j].data_source) =>
                SourceIndex(yielded[i].data_source) < SourceIndex(yielded[j].data_source)

\* the data sources that can still give a record: those with a pending record
Live(m) == {ds \in m.data_sources : Pending(m, ds) # {}}

\* the constructor has returned and __next__ has not been called
JustConstructed == status = "open" /\ last.kind = "none"

\* C20 as claimed: n_open_files is the number of data sources found right after
\* construction and the number of data sources that can still give a record
\* at every later point
C20_CountsLiveSources ==
    status = "open" =>
        /\ JustConstructed => n_open_files(mf) = Cardinality(mf.data_sources)
        /\ n_open_files(mf) = Cardinality(Live(mf))

\* C20 as amended: n_open_files is the number of files held open: the number of
\* data sources found right after construction, never less than the number of
\* data sources with a pending record, with all_chunks=False still the number
\* of data sources found when data sources are exhausted, and with
\* all_chunks=True above the number of live data sources only by data sources
\* whose open file holds no record
C20_CountsOpenFiles ==
    status = "open" =>
        /\ JustConstructed => n_open_files(mf) = Cardinality(mf.data_sources)
        /\ Live(mf) \subseteq DOMAIN mf.open_files
        /\ n_open_files(mf) >= Cardinality(Live(mf))
        /\ ~mf.all_chunks => n_open_files(mf) = Cardinality(mf.data_sources)
        /\ mf.all_chunks =>
              \A ds \in (DOMAIN mf.open_files) \ Live(mf) :
                  FileEvents(directory, ds, mf.open_files[ds]) = <<>>

\* with all_chunks=False an exhausted data source is still counted
C20_Witness ==
    /\ status = "open"
    /\ ~mf.all_chunks
    /\ yielded # <<>>
    /\ Cardinality(Live(mf)) < n_open_files(mf)

\* the first file the constructor opened
FirstOpened == recorded_inputs[1]

C22_FromFirstFile ==
    status = "open" =>
        /\ mf.data_stream = FirstOpened
        /\ mf.camera_config = FirstOpened

C22_Unchanged ==
    status = "open" =>
        /\ mf'.data_stream = mf.data_stream
        /\ mf'.camera_config = mf.camera_config

\* C22: data_stream and camera_config of a constructed MultiFiles are those of
\* the first file the constructor opened, and no __next__, whether or not it
\* opens the next chunk of a data source, changes them
C22_MetadataOnce == [](C22_FromFirstFile) /\ [][C22_Unchanged]_vars

\* the first data source has moved to its second chunk, whose record was
\* returned, after a file of another data source was opened
C22_Witness ==
    /\ status = "open"
    /\ Len(recorded_inputs) >= 3
    /\ \E i \in DOMAIN yielded :
          /\ yielded[i].data_source = FirstOpened.data_source
          /\ yielded[i].chunk = FirstOpened.chunk + 1

\* ------------------------------ ProtozfitsDL0EventSource: further properties
\* C23: for every telescope of a trigger for which _get_next_tel_event is
\* called, log_missing is called exactly once if no record is attached, on
\* both paths that return None, and not at all if a record is attached; it is
\* not called for telescopes the trigger does not list
C23_MissingAlwaysReported ==
    \A t \in TelIds :
        /\ (Stepped /\ Handled(t, array_event.tel_ids_with_data, telescope_files)) =>
               log_missing[t] = IF t \in DOMAIN array_event.tel THEN 0 ELSE 1
        /\ (Stepped /\ ~Listed(t, array_event.tel_ids_with_data)) => log_missing[t] = 0

\* a trigger with one telescope's record attached, another telescope missing
\* because the record read has another event id, and (two triggers on) a
\* telescope missing with no record read
C23_Witness ==
    /\ array_event.kind = "event"
    /\ \E t, u \in TelIds :
          /\ t \in DOMAIN array_event.tel /\ log_missing[t] = 0
          /\ Listed(u, array_event.tel_ids_with_data)
          /\ u \notin DOMAIN array_event.tel
          /\ log_missing[u] = 1

\* a telescope is missing with no record read from its files
C23_WitnessNoRecordLeft ==
    /\ array_event.kind = "event"
    /\ \E u \in TelIds :
          /\ Listed(u, array_event.tel_ids_with_data)
          /\ u \in DOMAIN telescope_files
          /\ u \notin DOMAIN array_event.tel
          /\ n_read[u] = 0
          /\ log_missing[u] = 1

\* for telescope t a record was read that has another event id than the trigger
Mismatch(t) ==
    /\ Stepped
    /\ Handled(t, array_event.tel_ids_with_data, telescope_files)
    /\ n_read[t] = 1
    /\ t \notin DOMAIN array_event.tel

\* C24 as claimed: with the default of the flag a mismatch is reported and the
\* array event is yielded without the telescope; with the other setting of the
\* flag the mismatch raises an error
C24_StrictRaisesHardError ==
    \A t \in TelIds :
        Mismatch(t) =>
            IF warn_missing
            THEN log_missing[t] = 1 /\ t \notin DOMAIN array_event.tel
            ELSE array_event.kind \notin {"event", "none"} /\ source = "finished"

\* C24 as amended: a mismatch raises no error under either setting of
\* warn_missing: it is reported once, as a warning by default and at debug
\* level with warn_missing=False, the telescope is left out, and the array
\* event is yielded unless the trigger lists a telescope without a MultiFiles
C24_FlagSelectsLogLevel ==
    \A t \in TelIds :
        Mismatch(t) =>
            /\ log_missing[t] = 1
            /\ log_level = IF warn_missing THEN "warning" ELSE "debug"
            /\ t \notin DOMAIN array_event.tel
            /\ array_event.kind = "event" <=>
                   AllConfigured(array_event.tel_ids_with_data, telescope_files)
            /\ array_event.kind = "event" => source = "open"

\* a mismatch with warn_missing=False: the array event is yielded
C24_Witness ==
    \E t \in TelIds :
        /\ Mismatch(t)
        /\ ~warn_missing
        /\ array_event.kind = "event"
        /\ log_level = "debug"

\* ------------------------------------- file names: get_file_info and templates
Digits == {0, 1}

\* the texts \d+ matches, of at most n digits
DigitStrings(n) == UNION {[1..k -> Digits] : k \in 1..n}

\* int(text)
RECURSIVE int(_)
int(text) ==
    IF text = <<>> THEN 0
    ELSE 10 * int(SubSeq(text, 1, Len(text) - 1)) + text[Len(text)]

optional_int(val) == IF val = <<>> THEN None ELSE int(val)

\* the decimal digits of a number
RECURSIVE decimal(_)
decimal(value) ==
    IF value < 10 THEN <<value>> ELSE decimal(value \div 10) \o <<value % 10>>

RECURSIVE zero_fill(_, _)
zero_fill(text, width) ==
    IF Len(text) >= width THEN text ELSE zero_fill(<<0>> \o text, width)

\* f"{value:0{width}d}"
format_int(value, width) == zero_fill(decimal(value), width)

Conventions == {"acada_rel1", "acada_dpps_icd"}

\* the file names the regex of a convention matches
Accepted(convention) ==
    IF convention = "acada_rel1"
    THEN [tel_id : DigitStrings(MaxTelDigits), data_source : {"SDH_3001"},
          timestamp : {"20231003T204445"}, sb_id : DigitStrings(MaxDigits),
          obs_id : DigitStrings(MaxDigits), colon : {FALSE}, data_type : {""},
          chunk : DigitStrings(MaxDigits), extra_suffix : {"", "_foo"}]
    ELSE {n \in [tel_id : DigitStrings(MaxTelDigits), data_source : {"SDH001"},
                 timestamp : {"20230802T021531"},
                 sb_id : DigitStrings(MaxDigits) \cup {<<>>},
                 obs_id : DigitStrings(MaxDigits) \cup {<<>>}, colon : BOOLEAN,
                 data_type : {"", "MUON"}, chunk : DigitStrings(MaxDigits),
                 extra_suffix : {"", "_foo"}] :
            n.colon => n.data_type # ""}

\* get_file_info on a name its regex matches
get_file_info(name, convention) ==
    [tel_id |-> int(name.tel_id),
     data_source |-> name.data_source,
     timestamp |-> name.timestamp,
     sb_id |-> optional_int(name.sb_id),
     obs_id |-> optional_int(name.obs_id),
     chunk |-> int(name.chunk),
     data_type |-> name.data_type,
     sb_id_padding |-> Len(name.sb_id),
     obs_id_padding |-> Len(name.obs_id),
     chunk_padding |-> Len(name.chunk),
     extra_suffix |-> name.extra_suffix]

acada_rel1_filename(info) ==
    [tel_id |-> format_int(info.tel_id, 3),
     data_source |-> info.data_source,
     timestamp |-> info.timestamp,
     sb_id |-> format_int(info.sb_id, info.sb_id_padding),
     obs_id |-> format_int(info.obs_id, info.obs_id_padding),
     colon |-> FALSE,
     data_type |-> "",
     chunk |-> format_int(info.chunk, info.chunk_padding),
     extra_suffix |-> info.extra_suffix]

acada_dpps_icd_filename(info) ==
    [tel_id |-> format_int(info.tel_id, 3),
     data_source |-> info.data_source,
     timestamp |-> info.timestamp,
     sb_id |-> IF info.sb_id # None
               THEN format_int(info.sb_id, info.sb_id_padding) ELSE <<>>,
     obs_id |-> IF info.obs_id # None
                THEN format_int(info.obs_id, info.obs_id_padding) ELSE <<>>,
     colon |-> FALSE,
     data_type |-> info.data_type,
     chunk |-> format_int(info.chunk, info.chunk_padding),
     extra_suffix |-> info.extra_suffix]

get_file_name(info, convention) ==
    IF convention = "acada_rel1"
    THEN acada_rel1_filename(info) ELSE acada_dpps_icd_filename(info)

\* a file name its convention accepts is to be converted
CodecInit ==
    /\ MFIdle
    /\ DL0Idle
    /\ file_names = {}
    /\ named = [status |-> "unopened", path |-> NoName, ignore_timestamp |-> TRUE,
                all_source_ids |-> TRUE, data_sources |-> {}, current_chunk |-> <<>>,
                open_files |-> <<>>, candidates |-> <<>>]
    /\ \E convention \in Conventions :
          \E name \in Accepted(convention) :
              codec = [stage |-> "name", convention |-> convention, name |-> name,
                       info |-> NoInfo, rendered |-> NoText]

\* info = get_file_info(name, convention)
Parse ==
    /\ codec.stage = "name"
    /\ codec' = [codec EXCEPT !.stage = "info",
                               !.info = get_file_info(codec.name, codec.convention)]
    /\ UNCHANGED <<file_names, named>>
    /\ UNCHANGED <<mfvars, dl0vars>>

\* filename_conventions[convention]["template"](info)
Render ==
    /\ codec.stage = "info"
    /\ codec' = [codec EXCEPT !.stage = "rendered",
                               !.rendered = get_file_name(codec.info, codec.convention)]
    /\ UNCHANGED <<file_names, named>>
    /\ UNCHANGED <<mfvars, dl0vars>>

CodecNext == Parse \/ Render

SpecCodec == CodecInit /\ [][CodecNext]_vars

\* C25: a file name its convention accepts, parsed by get_file_info and
\* rendered by the template of the convention, comes back as it was
C25_RoundTrip ==
    codec.stage = "rendered" => codec.rendered = codec.name

\* the same for names with a telescope id that the template's three digits
\* give back, and without a ":" before the data type
C25_RoundTripThreeDigits ==
    (/\ codec.stage = "rendered"
     /\ format_int(int(codec.name.tel_id), 3) = codec.name.tel_id
     /\ ~codec.name.colon) =>
        codec.rendered = codec.name

\* ---------------------------------------------- paths.py: parse_filename
\* a file name of the ACADA DPPS ICD is
\*   <prefix><prefix_id>_<system_name><system_id>_<date>[T<time>]
\* followed by segments "_SBID<n>", "_OBSID<n>", "_<type>", "_<subtype>",
\* "_CHUNK<n>", "_FILE<n>" and a suffix; a segment is [tag, text, word], a
\* word segment having the tag ""
NoSeg == [tag |-> "none", text |-> <<>>, word |-> ""]

Seg(tag, text, word) == [tag |-> tag, text |-> text, word |-> word]

\* the segment of a numbered part, none if the part is left out
NumberSeg(tag, text) == IF text = <<>> THEN <<>> ELSE <<Seg(tag, text, "")>>

WordSeg(word) == IF word = "" THEN <<>> ELSE <<Seg("", <<>>, word)>>

\* the optional numbers of a name: left out, or one digit
IdTexts == {<<>>} \cup DigitStrings(1)

\* the file names of the ICD with system ids of at most n digits
IcdNames(n) ==
    {[prefix |-> h[1], prefix_id |-> h[2], system_name |-> sys[1],
      system_id |-> sys[2], date |-> "20231011", time |-> time,
      segments |-> NumberSeg("SBID", ids[1]) \o NumberSeg("OBSID", ids[2])
                   \o WordSeg(words[1]) \o WordSeg(words[2])
                   \o NumberSeg("CHUNK", ids[3]) \o NumberSeg("FILE", ids[4]),
      suffix |-> suffix] :
        h \in {<<"SUB", <<1>>>>, <<"TEL", <<1>>>>, <<"AUX", <<0, 1>>>>},
        sys \in {"SWAT", "EVB"} \X ({<<>>} \cup DigitStrings(n)),
        time \in {"", "030105"},
        ids \in IdTexts \X IdTexts \X IdTexts \X IdTexts,
        words \in {"", "SUBARRAY", "DRS4CORR"} \X {"", "SHOWER"},
        suffix \in {"", ".fits.fz"}}

NoFileNameInfo ==
    [system_name |-> "", system_id |-> None, subarray_id |-> None, ae_type |-> "",
     ae_id |-> None, sb_id |-> None, obs_id |-> None, type_ |-> NoSeg,
     subtype |-> "", chunk_id |-> None, file_id |-> None, suffix |-> "",
     timestamp |-> [kind |-> "none", date |-> "", time |-> ""]]

\* the optional groups of FILENAME_RE after the date, in its order
SegmentGroups == <<"sb_id", "obs_id", "type_", "subtype", "chunk_id", "file_id">>

\* the text of a segment starts with FILE or CHUNK: (?!FILE)(?!CHUNK)
lookahead_fails(seg) == seg.tag \in {"FILE", "CHUNK"}

\* the group of FILENAME_RE matches the segment
group_matches(group, seg) ==
    IF group = "sb_id" THEN seg.tag = "SBID"
    ELSE IF group = "obs_id" THEN seg.tag = "OBSID"
    ELSE IF group = "type_" THEN ~lookahead_fails(seg)
    ELSE IF group = "subtype" THEN seg.tag = "" /\ seg.word \in {"SHOWER", "CAL", "MUON"}
    ELSE IF group = "chunk_id" THEN seg.tag = "CHUNK"
    ELSE seg.tag = "FILE"

\* what parse_filename makes of the text the group matched (type_ keeps the
\* segment, so that where it was taken from is seen)
group_value(group, seg) ==
    IF group = "type_" THEN seg
    ELSE IF group = "subtype" THEN seg.word
    ELSE int(seg.text)

\* the optional groups matched one after the other, each taking the next
\* segment if it matches it: [info, rest]
RECURSIVE match_groups(_, _, _)
match_groups(groups, segs, info) ==
    IF groups = <<>> THEN [info |-> info, rest |-> segs]
    ELSE IF segs # <<>> /\ group_matches(Head(groups), Head(segs))
    THEN match_groups(Tail(groups), Tail(segs),
                      [info EXCEPT ![Head(groups)] = group_value(Head(groups), Head(segs))])
    ELSE match_groups(Tail(groups), segs, info)

\* parse_filename on a name FILENAME_RE matches
parse_filename(name) ==
    LET head == [NoFileNameInfo EXCEPT
                    !.subarray_id = IF name.prefix = "SUB" THEN int(name.prefix_id) ELSE None,
                    !.ae_type = IF name.prefix = "SUB" THEN "" ELSE name.prefix,
                    !.ae_id = IF name.prefix = "SUB" THEN None ELSE int(name.prefix_id),
                    !.system_name = name.system_name,
                    !.system_id = optional_int(name.system_id),
                    !.timestamp = [kind |-> IF name.time # "" THEN "datetime" ELSE "date",
                                   date |-> name.date, time |-> name.time]]
        m == match_groups(SegmentGroups, name.segments, head)
    IN [m.info EXCEPT !.suffix = IF m.rest = <<>> THEN name.suffix ELSE ""]

\* a file name of the ICD is to be parsed
PathsInit ==
    /\ MFIdle
    /\ DL0Idle
    /\ file_names = {}
    /\ named = [status |-> "unopened", path |-> NoName, ignore_timestamp |-> TRUE,
                all_source_ids |-> TRUE, data_sources |-> {}, current_chunk |-> <<>>,
                open_files |-> <<>>, candidates |-> <<>>]
    /\ \E name \in IcdNames(MaxDigits) :
          codec = [stage |-> "name", convention |-> "icd", name |-> name,
                   info |-> NoFileNameInfo, rendered |-> NoText]

\* info = parse_filename(name)
ParseFilename ==
    /\ codec.stage = "name"
    /\ codec' = [codec EXCEPT !.stage = "parsed", !.info = parse_filename(codec.name)]
    /\ UNCHANGED <<file_names, named>>
    /\ UNCHANGED <<mfvars, dl0vars>>

PathsNext == ParseFilename

SpecPaths == PathsInit /\ [][PathsNext]_vars

\* the number written in the segment of a name with the tag, None without one
NumberIn(name, tag) ==
    IF \E i \in DOMAIN name.segments : name.segments[i].tag = tag
    THEN int(name.segments[CHOOSE i \in DOMAIN name.segments :
                              name.segments[i].tag = tag].text)
    ELSE None

\* the numbers, type_ and timestamp of the FileNameInfo are those of the name
C26_OtherFields ==
    codec.stage = "parsed" =>
        /\ codec.info.sb_id = NumberIn(codec.name, "SBID")
        /\ codec.info.obs_id = NumberIn(codec.name, "OBSID")
        /\ codec.info.chunk_id = NumberIn(codec.name, "CHUNK")
        /\ codec.info.file_id = NumberIn(codec.name, "FILE")
        /\ codec.info.type_.tag \notin {"CHUNK", "FILE"}
        /\ codec.info.timestamp.kind = IF codec.name.time # "" THEN "datetime" ELSE "date"
        /\ codec.info.timestamp.date = codec.name.date
        /\ codec.info.timestamp.time = codec.name.time

\* C26: the FileNameInfo of an ICD file name has the complete source token
\* (system name and number as written) as data_source_id, the numbers of the
\* name or None as sb_id, obs_id, chunk_id and file_id, a type_ not taken from
\* a CHUNK or FILE segment, and a datetime or a date as timestamp
C26_ParseFilename ==
    codec.stage = "parsed" =>
        /\ "data_source_id" \in DOMAIN codec.info
        /\ codec.info.data_source_id = <<codec.name.system_name, codec.name.system_id>>
        /\ C26_OtherFields

\* ------------------------------------------ MultiFiles: the priority queue
\* C27: the priority queue never holds more than one record of a data source
C27_OnePendingPerSource ==
    \A ds \in DataSources : Cardinality(Pending(mf, ds)) <= 1

\* both data sources have a pending record after an event was returned and its
\* data source has moved to its next chunk
C27_Witness ==
    /\ status = "open"
    /\ Len(yielded) >= 1
    /\ Len(recorded_inputs) >= 3
    /\ \A ds \in DataSources : Cardinality(Pending(mf, ds)) = 1

\* ------------------------------ ProtozfitsDL0EventSource: attached records
\* the records the MultiFiles of telescope t has returned
ReadOf(t) ==
    RecordsOf(tel_dirs[t], DataSources, 0, MaxChunk)
        \ Unread(telescope_files[t], tel_dirs[t])

\* C28: a record attached to an array event under a telescope id has the event
\* id of the trigger, is a record of the files of that telescope, read from
\* them, and the telescope is one the trigger lists
C28_AttachedRecordsMatch ==
    Stepped =>
        \A t \in DOMAIN array_event.tel :
            /\ array_event.tel[t].event_id = array_event.event_id
            /\ Listed(t, array_event.tel_ids_with_data)
            /\ t \in DOMAIN telescope_files
            /\ array_event.tel[t] \in ReadOf(t)

\* a record is attached that was read for an earlier trigger and buffered,
\* while a record of another telescope is in the buffer
C28_Witness ==
    /\ array_event.kind = "event"
    /\ \E t \in DOMAIN array_event.tel :
          /\ n_read[t] = 0
          /\ \E k \in DOMAIN tel_event_buffer : k[1] # t

\* the buffer with only the records of telescope t
OwnBuffer(buffer, t) ==
    [k \in {x \in DOMAIN buffer : x[1] = t} |-> buffer[k]]

C29_Step(t) ==
    (/\ source = "open"
     /\ count' = count + 1
     /\ array_event'.tel_ids_with_data = <<t>>
     /\ t \in DOMAIN telescope_files) =>
        \A g \in {get_next_tel_event(telescope_files, tel_dirs,
                                      OwnBuffer(tel_event_buffer, t), t,
                                      array_event'.event_id)} :
            /\ n_read'[t] = g.read
            /\ (t \in DOMAIN array_event'.tel) = g.found

\* C29: for a trigger that lists just telescope t, whether a record is read
\* from t's files and whether t's record is found are what they would be with
\* the records buffered for other telescopes taken out of the buffer
C29_BufferPerTelescope == [][\A t \in TelIds : C29_Step(t)]_vars

\* a buffered record that can no longer match: its event id is not above that
\* of the last trigger handled, and the event ids of the triggers go up
Stale(k) ==
    /\ k \in DOMAIN tel_event_buffer
    /\ count > 0
    /\ k[2] <= array_event.event_id

\* C30: a buffered record leaves the buffer when it is matched, and one that can
\* no longer match does not outlast the next trigger that lists its telescope
\* and for which an array event is yielded
C30_StaleEntriesRemoved ==
    [][\A k \in TelIds \X TriggerIds :
          (/\ Stale(k)
           /\ count' = count + 1
           /\ array_event'.kind = "event"
           /\ Listed(k[1], array_event'.tel_ids_with_data)) =>
              k \notin DOMAIN tel_event_buffer']_vars

\* a record leaves the buffer only in the step that attaches it to the array
\* event of the trigger with its event id
C30_RemovedOnlyWhenMatched ==
    [][\A k \in DOMAIN tel_event_buffer :
          k \notin DOMAIN tel_event_buffer' =>
              /\ source = "open"
              /\ IF count' = count + 1
                 THEN /\ array_event'.event_id = k[2]
                      /\ k[1] \in DOMAIN array_event'.tel
                      /\ array_event'.tel[k[1]] = tel_event_buffer[k]
                 ELSE FALSE]_vars

\* ------------------------------------ ProtozfitsDL0EventSource: trigger files
\* C31: the generator ends only when the trigger file of the last chunk index
\* has been read: at the end of a trigger file with a next chunk file the
\* records of that file are read
C31_TriggerChunksFollowed ==
    (source = "finished" /\ array_event.kind = "StopIteration") =>
        trigger_chunk = n_trigger_chunks - 1

\* --------------------------------- ProtozfitsDL0EventSource: reads of a step
\* the step that yields the array event of the next trigger
YieldsEvent ==
    /\ source = "open"
    /\ count' = count + 1
    /\ array_event'.kind = "event"

\* the records MultiFiles m of the files dir has not handed out that m2 has
TakenBetween(m, m2, dir) ==
    \A before \in {Unread(m, dir)} : \A after \in {Unread(m2, dir)} :
        /\ after \subseteq before
        /\ Cardinality(before \ after) <= 1

C32_Step ==
    /\ YieldsEvent =>
          \A t \in DOMAIN telescope_files :
              /\ \/ telescope_files'[t] = telescope_files[t]
                 \/ TakenBetween(telescope_files[t], telescope_files'[t], tel_dirs[t])
              /\ n_read'[t] <= 1
              /\ ~Listed(t, array_event'.tel_ids_with_data) =>
                    /\ telescope_files'[t] = telescope_files[t]
                    /\ n_read'[t] = 0
                    /\ OwnBuffer(tel_event_buffer', t) = OwnBuffer(tel_event_buffer, t)
    /\ (source # "unopened" /\ count' = count) =>
          UNCHANGED <<telescope_files, tel_event_buffer>>

\* C32: the step that yields an array event reads one trigger record, takes at
\* most one record from the files of each telescope the trigger lists and leaves
\* the files and buffered records of the other telescopes as they were; between
\* such steps nothing is read
C32_ReadsOfOneEvent == [][C32_Step]_vars

\* an array event was yielded for which a record was taken from the files of
\* one telescope while the other, not listed, has records waiting
C32_Witness ==
    /\ array_event.kind = "event"
    /\ \E t, u \in DOMAIN telescope_files :
          /\ t # u
          /\ array_event.tel_ids_with_data = <<t>>
          /\ n_read[t] = 1
          /\ telescope_files[u].events # <<>>

\* ------------------------------------------------ MultiFiles: open files
\* in this step the next chunk of ds was looked for and not found
RolloverFailed(ds) ==
    /\ status = "open"
    /\ status' = "open"
    /\ ds \in mf.data_sources
    /\ mf'.current_chunk[ds] = mf.current_chunk[ds] + 1
    /\ ~FileExists(directory, ds, mf'.current_chunk[ds])

\* C33: after the __next__ in which the next chunk of a data source is not
\* found, the data source is not in _open_files, n_open_files is one less than
\* before, and the files of the other data sources are open as before
C33_FailedRolloverReleases ==
    [][\A ds \in DataSources :
          RolloverFailed(ds) =>
              /\ ds \in DOMAIN mf.open_files
              /\ ds \notin DOMAIN mf'.open_files
              /\ n_open_files(mf') = n_open_files(mf) - 1
              /\ \A o \in (DOMAIN mf.open_files) \ {ds} :
                    /\ o \in DOMAIN mf'.open_files
                    /\ mf'.open_files[o] = mf.open_files[o]]_vars

\* the next chunk of a data source was not found while the file of another
\* data source is open with a record pending
C33_Witness ==
    \E ds \in DataSources :
        /\ Ended(ds)
        /\ mf.current_chunk[ds] > mf.first_chunk
        /\ last.kind = "event"
        /\ \E o \in DOMAIN mf.open_files : Pending(mf, o) # {}

\* the File objects of a data source that were created and not closed
HandlesOf(m, ds) == {h \in m.handles : h.data_source = ds}

\* C34: a MultiFiles has at most one file open for a data source, the one
\* _open_files holds for it, and n_open_files is at most the number of data
\* sources found
C34_OneOpenFilePerSource ==
    /\ \A ds \in DataSources : Cardinality(HandlesOf(mf, ds)) <= 1
    /\ mf.handles = {[data_source |-> ds, chunk |-> mf.open_files[ds]] :
                        ds \in DOMAIN mf.open_files}
    /\ DOMAIN mf.open_files \subseteq mf.data_sources
    /\ n_open_files(mf) <= Cardinality(mf.data_sources)

\* the next chunk of a data source was opened while another data source has
\* its file open
C34_Witness ==
    /\ status = "open"
    /\ yielded # <<>>
    /\ \E ds, o \in DOMAIN mf.open_files :
          /\ ds # o
          /\ mf.open_files[ds] > mf.first_chunk

\* C35: with all_chunks, after the construction and after a __next__ that
\* returned an event, the data sources with an open file are those with a
\* pending record, each with one, so the queue holds n_open_files records
C35_PendingPerOpenFile ==
    (status = "open" /\ mf.all_chunks /\ last.kind \in {"none", "event"}) =>
        /\ Len(mf.events) = n_open_files(mf)
        /\ \A ds \in DOMAIN mf.open_files : Cardinality(Pending(mf, ds)) = 1
        /\ \A i \in DOMAIN mf.events : mf.events[i].data_source \in DOMAIN mf.open_files

\* the same where no open file is one without records
C35_UnlessEmptyFile ==
    (/\ status = "open" /\ mf.all_chunks /\ last.kind \in {"none", "event"}
     /\ \A ds \in DOMAIN mf.open_files :
           FileEvents(directory, ds, mf.open_files[ds]) # <<>>) =>
        /\ Len(mf.events) = n_open_files(mf)
        /\ \A ds \in DOMAIN mf.open_files : Cardinality(Pending(mf, ds)) = 1
        /\ \A i \in DOMAIN mf.events : mf.events[i].data_source \in DOMAIN mf.open_files

\* the pending records of a data source
PendingRecords(m, ds) == {m.events[i] : i \in Pending(m, ds)}

\* in this step the next chunk of ds was looked for
Rollover(ds) ==
    /\ status = "open"
    /\ status' = "open"
    /\ ds \in mf.data_sources
    /\ mf'.current_chunk[ds] = mf.current_chunk[ds] + 1

\* C36: the __next__ that goes to the next chunk of a data source leaves the
\* chunk index, the open file, the position in it and the pending record of
\* every other data source as they were
C36_RolloverLeavesOthers ==
    [][\A ds \in DataSources :
          Rollover(ds) =>
              \A o \in mf.data_sources \ {ds} :
                  /\ mf'.current_chunk[o] = mf.current_chunk[o]
                  /\ (o \in DOMAIN mf'.open_files) = (o \in DOMAIN mf.open_files)
                  /\ o \in DOMAIN mf.open_files =>
                        /\ mf'.open_files[o] = mf.open_files[o]
                        /\ mf'.events_tables[o] = mf.events_tables[o]
                  /\ HandlesOf(mf', o) = HandlesOf(mf, o)
                  /\ PendingRecords(mf', o) = PendingRecords(mf, o)]_vars

\* the next chunk of a data source was opened and its first record queued
\* while a record of another data source is pending
C36_Witness ==
    /\ status = "open"
    /\ last.kind = "event"
    /\ \E ds, o \in DOMAIN mf.open_files :
          /\ ds # o
          /\ mf.open_files[ds] = last.event.chunk + 1
          /\ last.event.data_source = ds
          /\ Pending(mf, ds) # {}
          /\ Pending(mf, o) # {}

\* -------------------------------- ProtozfitsDL0EventSource: size of the buffer
\* the largest number of data sources of a telescope, which is the largest
\* n_open_files a telescope has had: n_open_files is the number of data sources
\* after the construction and does not go up
LargestOpened(files) ==
    IF DOMAIN files = {} THEN 0
    ELSE CHOOSE n \in 0..Cardinality(DataSources) :
            /\ \E t \in DOMAIN files : Cardinality(files[t].data_sources) = n
            /\ \A t \in DOMAIN files : Cardinality(files[t].data_sources) <= n

C37_Step ==
    /\ source = "unopened" /\ source' = "open" =>
          \A t \in DOMAIN telescope_files' :
              n_open_files(telescope_files'[t]) =
                  Cardinality(telescope_files'[t].data_sources)
    /\ source = "open" =>
          /\ DOMAIN telescope_files' = DOMAIN telescope_files
          /\ \A t \in DOMAIN telescope_files :
                /\ telescope_files'[t].data_sources = telescope_files[t].data_sources
                /\ n_open_files(telescope_files'[t]) <= n_open_files(telescope_files[t])
    /\ Cardinality(DOMAIN tel_event_buffer') <= LargestOpened(telescope_files')
    /\ \A t \in DOMAIN telescope_files :
          (/\ source = "open"
           /\ count' = count + 1
           /\ array_event'.tel_ids_with_data # <<>>
           /\ Head(array_event'.tel_ids_with_data) = t
           /\ n_read'[t] = 1) =>
              Cardinality(DOMAIN tel_event_buffer) < n_open_files(telescope_files[t])

\* C37: the buffer never holds more records than the largest n_open_files a
\* telescope has had, and a record is read from the files of a telescope only
\* when the buffer holds fewer records than that telescope has open files
C37_BufferBounded == [][C37_Step]_vars

\* the buffer holds as many records as the largest n_open_files there was,
\* which is more than any telescope has open files now
C37_Witness ==
    /\ source = "open"
    /\ tel_event_buffer # <<>>
    /\ Cardinality(DOMAIN tel_event_buffer) = LargestOpened(telescope_files)
    /\ \A t \in DOMAIN telescope_files :
          n_open_files(telescope_files[t]) < Cardinality(DOMAIN tel_event_buffer)

\* ------------------------- ProtozfitsDL0EventSource: records attached once
\* the records of telescope t that can still be attached to an array event:
\* those in the buffer and those not yet taken from its files
Held(files, buffer, dirs, t) ==
    Buffered(buffer, t) \cup Unread(files[t], dirs[t])

C38_Step ==
    source = "open" =>
        IF count' = count
        THEN UNCHANGED <<telescope_files, tel_event_buffer, tel_dirs>>
        ELSE \A t \in DOMAIN telescope_files :
            \/ /\ t \notin DOMAIN array_event'.tel
               /\ telescope_files'[t] = telescope_files[t]
               /\ OwnBuffer(tel_event_buffer', t) = OwnBuffer(tel_event_buffer, t)
            \/ \A before \in {Held(telescope_files, tel_event_buffer, tel_dirs, t)} :
               \A after \in {Held(telescope_files', tel_event_buffer', tel_dirs', t)} :
                   /\ after \subseteq before
                   /\ t \in DOMAIN array_event'.tel =>
                         /\ array_event'.tel[t] \in before
                         /\ array_event'.tel[t] \notin after

\* C38: a record attached to an array event was in the buffer or not yet taken
\* from the files, after the step it is in neither, and no record comes back
\* to the buffer or to the files: a record is attached to one array event at most
C38_AttachedOnce == [][C38_Step]_vars

\* a record that was buffered at an earlier trigger is attached and has left
\* the buffer
C38_Witness ==
    /\ array_event.kind = "event"
    /\ count >= 2
    /\ \E t \in DOMAIN array_event.tel :
          /\ n_read[t] = 0
          /\ buffer_key(t, array_event.event_id) \notin DOMAIN tel_event_buffer

\* ------------------------ ProtozfitsDL0EventSource: a telescope that omits
\* the records of the files of telescope t have different event ids, going up
\* within the files of a data source
Increasing(t) ==
    \A r, q \in RecordsOf(tel_dirs[t], DataSources, 0, MaxChunk) :
        /\ r # q => r.event_id # q.event_id
        /\ (/\ r.data_source = q.data_source
            /\ \/ r.chunk < q.chunk
               \/ r.chunk = q.chunk /\ r.idx < q.idx) => r.event_id < q.event_id

\* the step handles a trigger that lists just t, the one telescope with files,
\* and no record of t that is buffered or still in the files has an event id
\* below that of the trigger
OmittingStep(t) ==
    /\ source = "open"
    /\ count' = count + 1
    /\ DOMAIN telescope_files = {t}
    /\ Increasing(t)
    /\ array_event'.tel_ids_with_data = <<t>>
    /\ \A r \in Held(telescope_files, tel_event_buffer, tel_dirs, t) :
          r.event_id >= array_event'.event_id

C39_Step(t) ==
    OmittingStep(t) =>
        /\ array_event'.kind = "event"
        /\ (t \in DOMAIN array_event'.tel) =
              (\E r \in Held(telescope_files, tel_event_buffer, tel_dirs, t) :
                  r.event_id = array_event'.event_id)
        /\ t \in DOMAIN array_event'.tel =>
              array_event'.tel[t].event_id = array_event'.event_id
        /\ Held(telescope_files', tel_event_buffer', tel_dirs', t) =
              {r \in Held(telescope_files, tel_event_buffer, tel_dirs, t) :
                  r.event_id # array_event'.event_id}

====
